---- MODULE Spec2Model ----
(***************************************************************************)
(* Bonding-curve launchpad (GalaChain/launchpad): one sale, its vault, one *)
(* trader, the platform fee configuration and the four trade operations.   *)
(*                                                                         *)
(* Quantities are integers.  Selling-token quantities are counted in       *)
(* TokenUnit tokens and native quantities in NativeUnit GALA; the unit is  *)
(* the precision the engine rounds to (NATIVE_TOKEN_DECIMALS and           *)
(* SELLING_TOKEN_DECIMALS), so ROUND_UP / ROUND_DOWN of the source are     *)
(* ceiling / floor to one unit.  A token class that declares fewer         *)
(* decimals accepts only multiples of a coarser step.                      *)
(* A transaction that throws persists nothing (the chaincode's writes are  *)
(* flushed only when the contract method returns), but the writes it made  *)
(* before the throw are kept in last.log so that their order can be stated.*)
(***************************************************************************)
EXTENDS Integers, Sequences, FiniteSets, TLC

\* ------------------------------------------------------------------ units
\* one selling-token unit of the model, in tokens
TokenUnit == 1000000
\* one native unit of the model, in GALA
NativeUnit == 100000
\* LaunchpadSale.MARKET_CAP ("1640985.8441726" GALA) in native units; like
\* the source's literal it is the cost of the whole supply rounded up to
\* the unit (CurveTable[21] = 1640986 GALA)
MARKET_CAP == 17
\* new BigNumber("1e+7"), the unscaled supply, in token units
BASE_SUPPLY == 10
\* adjustableSupplyMultiplier is stored in halves: 1 = 0.5, 2 = 1, 4 = 2,
\* and 0 stands for "undefined"
MulDen == 2

\* ------------------------------------------------------------------ bounds
\* transactions submitted in one run
MaxTx == 3
\* native units the trader starts with
UserNative == 30
\* latest transaction time
MaxTime == 1

Min(a, b) == IF a < b THEN a ELSE b
\* Decimal.ROUND_UP / ROUND_DOWN of a non-negative ratio num/den to one unit
RoundUp(num, den) == (num + den - 1) \div den
RoundDown(num, den) == num \div den

\* TokenClass.decimals as the smallest quantity of the token the ledger
\* accepts, in units: 1 for a token that declares at least the decimals the
\* engine rounds to, CoarseStep for one that declares fewer
CoarseStep == 3
\* the default decimals of the two tokens, as the smallest step of a
\* quantity: 8 and 9 decimals are the finest the model has
NATIVE_TOKEN_DECIMALS == 1
SELLING_TOKEN_DECIMALS == 1
\* toDecimalPlaces(decimals, ROUND_UP / ROUND_DOWN) and decimalPlaces(decimals)
\* (BigNumber's default mode, ROUND_HALF_UP); NaN stays NaN
RoundUpTo(x, step) == IF x < 0 THEN x ELSE RoundUp(x, step) * step
RoundDownTo(x, step) == IF x < 0 THEN x ELSE RoundDown(x, step) * step
RoundHalfUpTo(x, step) == IF x < 0 THEN x ELSE ((2 * x + step) \div (2 * step)) * step

\* ------------------------------------------------------------------ curve
\* (BASE_PRICE / exponentFactor) * (euler ^ (exponentFactor * p * 5e5 / 1e18) - 1)
\* in GALA, for p = 0 .. 24 half token units of the unscaled curve
\* (BASE_PRICE = 16506671506650, exponentFactor = 1166069000000)
CurveTable ==
  << 0, 11, 31, 67, 132, 247, 454, 824, 1488, 2676, 4806, 8620, 15454,
     27697, 49629, 88919, 159307, 285405, 511304, 915995, 1640986,
     2939782, 5266532, 9434827, 16902186 >>
MaxPos == Len(CurveTable) - 1
Curve(p) == CurveTable[p + 1]

\* a price above all the native tokens of the model: the value of the curve
\* difference when its upper end lies beyond the table (more than 4e10 GALA)
Unaffordable == 400000

\* ------------------------------------------------------------------ names
TRADER == "user"
VAULT == "vault"
FEE_ADDRESS == "feeAddress"
SALE_OWNER == "saleOwner"
POOL == "pool"
Owners == {TRADER, VAULT, FEE_ADDRESS, SALE_OWNER, POOL}
\* the users that call configureLaunchpadFeeAddress: CURATOR is the one whose
\* MSPID is the curator organisation's
CURATOR == "curator"
Callers == {CURATOR, FEE_ADDRESS, TRADER}
NATIVE == "native"
MEME == "meme"
Tokens == {NATIVE, MEME}

\* an optional BigNumber that the caller left out
NoBound == -1
\* the result of a Decimal computation that is not a number (ln of a
\* non-positive argument); any negative quantity is refused by the ledger
NaN == -1
\* no LaunchpadFeeConfig / no reverseBondingCurveConfiguration stored
\* dto.newPlatformFeeAddress left out
NoAddress == "undefined"
NoConfig == [present |-> FALSE, feeAddress |-> NoAddress, feeAmount |-> 0, authorities |-> {}]
NoRbc == [present |-> FALSE, minFeePortion |-> 0, maxFeePortion |-> 0]

\* ------------------------------------------------------------------ LaunchpadSale
\* adjustableSupplyMultiplier is counted in halves (MulDen): 0 stands for a
\* multiplier that was left out, ZeroMultiplier for the number 0, which
\* @Min(0) accepts
ZeroMultiplier == -1
\* BASE_PRICE, in units that every multiplier of the model divides
BASE_PRICE == 12
\* a BigNumber divided by zero
Infinity == -2

\* the multiplier as used where the source tests "multiplier ? .. : default"
EffectiveMultiplier(mh) == IF mh \in {0, ZeroMultiplier} THEN MulDen ELSE mh

\* the constructor leaving basePrice at BASE_PRICE whatever the multiplier
NewLaunchpadSaleUnscaledPrice(rbc, saleStartTime, mh) ==
  LET m == IF mh = 0 THEN MulDen ELSE IF mh = ZeroMultiplier THEN 0 ELSE mh
  IN  [ saleStatus |-> IF saleStartTime > 0 THEN "Upcoming" ELSE "Ongoing",
        saleStartTime |-> saleStartTime,
        adjustableSupplyMultiplier |-> mh,
        basePrice |-> BASE_PRICE,
        maxSupply |-> (BASE_SUPPLY * m) \div MulDen,
        sellingTokenQuantity |-> (BASE_SUPPLY * m) \div MulDen,
        nativeTokenQuantity |-> 0,
        reverseBondingCurveConfiguration |-> rbc ]

\* new LaunchpadSale(vault, token, rbc, owner, saleStartTime, multiplier):
\* the constructor tests "multiplier !== undefined", so the number 0 scales
\* the supply to 0 and divides BASE_PRICE by 0
NewLaunchpadSale(rbc, saleStartTime, mh) ==
  LET m == IF mh = 0 THEN MulDen ELSE IF mh = ZeroMultiplier THEN 0 ELSE mh
  IN  [ saleStatus |-> IF saleStartTime > 0 THEN "Upcoming" ELSE "Ongoing",
        saleStartTime |-> saleStartTime,
        adjustableSupplyMultiplier |-> mh,
        basePrice |-> IF m = 0 THEN Infinity ELSE (BASE_PRICE * MulDen) \div m,
        maxSupply |-> (BASE_SUPPLY * m) \div MulDen,
        sellingTokenQuantity |-> (BASE_SUPPLY * m) \div MulDen,
        nativeTokenQuantity |-> 0,
        reverseBondingCurveConfiguration |-> rbc ]

\* buyToken with the signs of sellToken
buyTokenWithSellSigns(sale, sellingTokenAmount, nativeTokenAmount) ==
  [sale EXCEPT !.sellingTokenQuantity = @ + sellingTokenAmount,
               !.nativeTokenQuantity = @ - nativeTokenAmount]

\* buyToken recording the native amount only
buyTokenNativeOnly(sale, sellingTokenAmount, nativeTokenAmount) ==
  [sale EXCEPT !.nativeTokenQuantity = @ + nativeTokenAmount]

buyToken(sale, sellingTokenAmount, nativeTokenAmount) ==
  [sale EXCEPT !.sellingTokenQuantity = @ - sellingTokenAmount,
               !.nativeTokenQuantity = @ + nativeTokenAmount]

\* sellToken with the signs of buyToken
sellTokenWithBuySigns(sale, sellingTokenAmount, nativeTokenAmount) ==
  [sale EXCEPT !.sellingTokenQuantity = @ - sellingTokenAmount,
               !.nativeTokenQuantity = @ + nativeTokenAmount]

sellToken(sale, sellingTokenAmount, nativeTokenAmount) ==
  [sale EXCEPT !.sellingTokenQuantity = @ + sellingTokenAmount,
               !.nativeTokenQuantity = @ - nativeTokenAmount]

fetchTokensSold(sale) == sale.maxSupply - sale.sellingTokenQuantity

\* fetchCirculatingSupplyProportional: 1 - sellingTokenQuantity / maxSupply,
\* as the fraction num / den
fetchCirculatingSupplyProportional(sale) ==
  [ num |-> sale.maxSupply - sale.sellingTokenQuantity, den |-> sale.maxSupply ]

\* finalizeSale() writing the wrong member of SaleStatus
finalizeSaleRecordAsUpcoming(sale) ==
  [sale EXCEPT !.saleStatus = "Upcoming",
               !.nativeTokenQuantity = 0,
               !.sellingTokenQuantity = 0]

\* finalizeSale() leaving the quantity fields as they were
finalizeSaleRecordKeepingQuantities(sale) ==
  [sale EXCEPT !.saleStatus = "Finished"]

\* LaunchpadSale.finalizeSale()
finalizeSaleRecord(sale) ==
  [sale EXCEPT !.saleStatus = "Finished",
               !.nativeTokenQuantity = 0,
               !.sellingTokenQuantity = 0]

\* ------------------------------------------------------------------ fees
\* feeAmount is a percentage (0 .. 100 for the source's 0 .. 1)
\* calculateTransactionFee with ROUND_DOWN
calculateTransactionFeeRoundedDown(tokensBeingTraded, feeConfig) ==
  RoundDown(tokensBeingTraded * (IF feeConfig.present THEN feeConfig.feeAmount ELSE 0), 100)

calculateTransactionFee(tokensBeingTraded, feeConfig) ==
  RoundUp(tokensBeingTraded * (IF feeConfig.present THEN feeConfig.feeAmount ELSE 0), 100)

\* the fee taken on the proportion left in the vault instead of the
\* circulating proportion
calculateReverseBondingCurveFeeOfInventory(sale, nativeTokensToReceive) ==
  LET cfg == sale.reverseBondingCurveConfiguration
      feePortionDiff == cfg.maxFeePortion - cfg.minFeePortion
  IN  IF ~cfg.present \/ cfg.maxFeePortion = 0
        THEN 0
        ELSE RoundUp(nativeTokensToReceive
                       * (cfg.minFeePortion * sale.maxSupply
                            + sale.sellingTokenQuantity * feePortionDiff),
                     100 * sale.maxSupply)

\* fee portions are percentages (0 .. 50 for the source's 0 .. 0.5);
\* circulating proportion = 1 - sellingTokenQuantity / maxSupply
calculateReverseBondingCurveFee(sale, nativeTokensToReceive) ==
  LET cfg == sale.reverseBondingCurveConfiguration
      sold == sale.maxSupply - sale.sellingTokenQuantity
      feePortionDiff == cfg.maxFeePortion - cfg.minFeePortion
  IN  IF ~cfg.present \/ cfg.maxFeePortion = 0
        THEN 0
        ELSE RoundUp(nativeTokensToReceive
                       * (cfg.minFeePortion * sale.maxSupply + sold * feePortionDiff),
                     100 * sale.maxSupply)

\* ------------------------------------------------------------------ calculators
\* position on the unscaled curve of t token units: getBondingConstants()
UnscaledPos(t) == 2 * t
\* position of t token units with the constants scaled by the multiplier:
\* getBondingConstants(adjustableSupplyMultiplier)
ScaledPos(t, mh) == (2 * MulDen * t) \div EffectiveMultiplier(mh)

\* the price of callNativeTokenIn rounded with ROUND_DOWN
NativeTokenInPriceRoundedDown(sold, tokensToBuy, mh) ==
  LET p1 == 2 * (sold + tokensToBuy)
      p2 == 2 * sold
  IN  IF p1 = p2 THEN 0
      ELSE IF p1 > MaxPos THEN Unaffordable
      ELSE RoundDown((Curve(p1) - Curve(p2)) * MulDen, EffectiveMultiplier(mh) * NativeUnit)

\* the price of callNativeTokenIn taken from a baseline of zero whatever
\* has been sold
NativeTokenInPriceFromZero(sold, tokensToBuy, mh) ==
  LET p1 == UnscaledPos(tokensToBuy)
  IN  IF p1 = 0 THEN 0
      ELSE IF p1 > MaxPos THEN Unaffordable
      ELSE RoundUp(Curve(p1) * MulDen, EffectiveMultiplier(mh) * NativeUnit)

\* constantFactor * (eResult1 - eResult2) of callNativeTokenIn, rounded up:
\* basePrice is the sale's (BASE_PRICE / multiplier), the exponent unscaled
NativeTokenInPrice(sold, tokensToBuy, mh) ==
  LET p1 == UnscaledPos(sold + tokensToBuy)
      p2 == UnscaledPos(sold)
  IN  IF p1 = p2 THEN 0
      ELSE IF p1 > MaxPos THEN Unaffordable
      ELSE RoundUp((Curve(p1) - Curve(p2)) * MulDen, EffectiveMultiplier(mh) * NativeUnit)

callNativeTokenIn(sale, feeConfig, tokenQuantity) ==
  LET totalTokensSold == fetchTokensSold(sale)
      tokensToBuy == IF tokenQuantity + totalTokensSold > BASE_SUPPLY
                       THEN sale.sellingTokenQuantity
                       ELSE tokenQuantity
      roundedPrice == NativeTokenInPrice(totalTokensSold, tokensToBuy,
                                         sale.adjustableSupplyMultiplier)
  IN  [ originalQuantity |-> tokensToBuy,
        calculatedQuantity |-> roundedPrice,
        reverseBondingCurve |-> 0,
        transactionFees |-> calculateTransactionFee(roundedPrice, feeConfig) ]

\* ln-inverse of the curve rounded down to one token unit: the largest
\* number of units whose exact cost is at most nativeTokens
TokensForNative(nativeTokens, totalTokensSold, mh) ==
  LET from == ScaledPos(totalTokensSold, mh)
      fits == { d \in 0..(2 * BASE_SUPPLY + 4) :
                  /\ ScaledPos(totalTokensSold + d, mh) <= MaxPos
                  /\ Curve(ScaledPos(totalTokensSold + d, mh)) - Curve(from)
                       <= nativeTokens * NativeUnit }
  IN  IF nativeTokens < 0 THEN NaN
      ELSE CHOOSE d \in fits : \A e \in fits : e <= d

\* calculateTokensPurchasable without the rounding of the native tokens
calculateTokensPurchasableUnrounded(nativeTokens, totalTokensSold, nativeDecimals, sellingDecimals, mh) ==
  LET roundedResult == RoundDownTo(TokensForNative(nativeTokens, totalTokensSold, mh),
                                   sellingDecimals)
      supplyCap == IF mh \notin {0, ZeroMultiplier} THEN (BASE_SUPPLY * mh) \div MulDen ELSE BASE_SUPPLY
  IN  << nativeTokens,
         IF roundedResult + totalTokensSold > supplyCap
           THEN supplyCap - totalTokensSold
           ELSE roundedResult >>

calculateTokensPurchasable(nativeTokens, totalTokensSold, nativeDecimals, sellingDecimals, mh) ==
  LET roundedNativeTokens == RoundUpTo(nativeTokens, nativeDecimals)
      roundedResult == RoundDownTo(TokensForNative(roundedNativeTokens, totalTokensSold, mh),
                                   sellingDecimals)
      supplyCap == IF mh \notin {0, ZeroMultiplier} THEN (BASE_SUPPLY * mh) \div MulDen ELSE BASE_SUPPLY
  IN  << roundedNativeTokens,
         IF roundedResult + totalTokensSold > supplyCap
           THEN supplyCap - totalTokensSold
           ELSE roundedResult >>

\* callMemeTokenOut fetching the sale whatever IsPreMint says
callMemeTokenOutOfSale(sale, feeConfig, tokenDecimals, nativeTokenQuantity, IsPreMint) ==
  LET totalTokensSold == fetchTokensSold(sale)
      nativeTokens == IF nativeTokenQuantity + sale.nativeTokenQuantity > MARKET_CAP
                        THEN MARKET_CAP - sale.nativeTokenQuantity
                        ELSE nativeTokenQuantity
      res == calculateTokensPurchasable(nativeTokens, totalTokensSold,
                                        tokenDecimals[NATIVE], tokenDecimals[MEME],
                                        sale.adjustableSupplyMultiplier)
  IN  [ originalQuantity |-> res[1],
        calculatedQuantity |-> res[2],
        reverseBondingCurve |-> 0,
        transactionFees |-> calculateTransactionFee(res[1], feeConfig) ]

\* with IsPreMint the sale is not fetched: nothing sold, no market-cap
\* limit, NATIVE_TOKEN_DECIMALS and SELLING_TOKEN_DECIMALS, no multiplier
callMemeTokenOut(sale, feeConfig, tokenDecimals, nativeTokenQuantity, IsPreMint) ==
  LET totalTokensSold == IF IsPreMint THEN 0 ELSE fetchTokensSold(sale)
      nativeTokens == IF ~IsPreMint /\ nativeTokenQuantity + sale.nativeTokenQuantity > MARKET_CAP
                        THEN MARKET_CAP - sale.nativeTokenQuantity
                        ELSE nativeTokenQuantity
      res == calculateTokensPurchasable(nativeTokens, totalTokensSold,
                 IF IsPreMint THEN NATIVE_TOKEN_DECIMALS ELSE tokenDecimals[NATIVE],
                 IF IsPreMint THEN SELLING_TOKEN_DECIMALS ELSE tokenDecimals[MEME],
                 IF IsPreMint THEN 0 ELSE sale.adjustableSupplyMultiplier)
  IN  [ originalQuantity |-> res[1],
        calculatedQuantity |-> res[2],
        reverseBondingCurve |-> 0,
        transactionFees |-> calculateTransactionFee(res[1], feeConfig) ]

\* native paid for exactly tokensToSell units sold back: the curve between
\* the new and the old baseline, rounded down
callNativeTokenOut(sale, feeConfig, tokenQuantity) ==
  LET totalTokensSold == fetchTokensSold(sale)
      mh == sale.adjustableSupplyMultiplier
      tokensToSell == Min(tokenQuantity, totalTokensSold)
      roundedPrice == RoundDown(Curve(ScaledPos(totalTokensSold, mh))
                                  - Curve(ScaledPos(totalTokensSold - tokensToSell, mh)),
                                NativeUnit)
  IN  [ originalQuantity |-> tokensToSell,
        calculatedQuantity |-> roundedPrice,
        reverseBondingCurve |-> calculateReverseBondingCurveFee(sale, roundedPrice),
        transactionFees |-> calculateTransactionFee(roundedPrice, feeConfig) ]

\* tokens that must be sold back to take nativeTokens out, rounded up: the
\* smallest number of units whose exact proceeds are at least nativeTokens;
\* callMemeTokenIn rounds them up to the selling token's decimals
TokensForNativeOut(nativeTokens, totalTokensSold, mh) ==
  LET from == ScaledPos(totalTokensSold, mh)
      enough == { d \in 0..totalTokensSold :
                    Curve(from) - Curve(ScaledPos(totalTokensSold - d, mh))
                      >= nativeTokens * NativeUnit }
  IN  IF enough = {} THEN NaN
      ELSE CHOOSE d \in enough : \A e \in enough : d <= e

callMemeTokenIn(sale, feeConfig, tokenDecimals, nativeTokenQuantity) ==
  LET totalTokensSold == fetchTokensSold(sale)
      nativeTokens == Min(nativeTokenQuantity, sale.nativeTokenQuantity)
      tokens == RoundUpTo(TokensForNativeOut(nativeTokens, totalTokensSold,
                                             sale.adjustableSupplyMultiplier),
                          tokenDecimals[MEME])
  IN  [ originalQuantity |-> nativeTokens,
        calculatedQuantity |-> tokens,
        reverseBondingCurve |-> calculateReverseBondingCurveFee(sale, nativeTokens),
        transactionFees |-> calculateTransactionFee(nativeTokens, feeConfig) ]

\* ------------------------------------------------------------------ state
VARIABLES
  sale,            \* the stored LaunchpadSale
  bal,             \* ledger balances: bal[owner][token]
  feeConfig,       \* the stored LaunchpadFeeConfig, or NoConfig
  feeAllocation,   \* the stored LaunchpadFinalizeFeeAllocation (percentages)
  feeReceipts,     \* number of fee payment receipts written
  decimals,        \* TokenClass.decimals of each token, as its smallest step
  pool,            \* a liquidity pool of the token pair exists
  now,             \* ctx.txUnixTime
  txCount,         \* transactions submitted
  last,            \* the latest transaction: request, outcome and effects
  refused,         \* the request last refused for want of a fee configuration
  tradeData,       \* the stored LaunchpadTradeData of each vault, or NoTradeData
  batchSubmitAuthorities  \* the stored LaunchpadBatchSubmitAuthorities list

vars == << sale, bal, feeConfig, feeAllocation, feeReceipts, decimals, pool, now, txCount, last, refused, tradeData, batchSubmitAuthorities >>

\* the vaults whose trade data is followed
VAULT_B == "vaultB"

TradeVaults == {VAULT, VAULT_B}

\* no LaunchpadTradeData is stored under the key
NoTradeData == [ present |-> FALSE, galaVolumeTraded |-> 0, createdAt |-> 0, lastUpdated |-> 0 ]

\* state outside the trades: no trade data, no batch-submit authorities
NoSideState ==
  /\ tradeData = [ v \in TradeVaults |-> NoTradeData ]
  /\ batchSubmitAuthorities = << >>

\* ------------------------------------------------------------------ transaction
\* The running transaction: the error thrown so far ("none" while it runs),
\* the sale and balances as the transaction sees them, and the log of the
\* writes it made, in order.
StartTx ==
  [ err |-> "none", msg |-> "", sale |-> sale, bal |-> bal,
    receipts |-> feeReceipts, pool |-> pool, log |-> << >> ]

Effect(kind, from, to, token, quantity) ==
  [ kind |-> kind, from |-> from, to |-> to, token |-> token, quantity |-> quantity ]

Throw(st, err, msg) ==
  IF st.err # "none" THEN st ELSE [st EXCEPT !.err = err, !.msg = msg]

\* the ledger's transfer: refuses a quantity that is not a non-negative
\* number, a quantity with more decimals than the token class declares and a
\* quantity above the sender's balance
transferToken(st, from, to, token, quantity) ==
  IF st.err # "none" THEN st
  ELSE IF quantity < 0 THEN Throw(st, "InvalidDecimal", "quantity")
  ELSE IF quantity % decimals[token] # 0 THEN Throw(st, "InvalidDecimal", token)
  ELSE IF st.bal[from][token] < quantity THEN Throw(st, "InsufficientBalance", from)
  ELSE [st EXCEPT !.bal[from][token] = @ - quantity,
                  !.bal[to][token] = @ + quantity,
                  !.log = Append(@, Effect("transfer", from, to, token, quantity))]

\* burnTokens of the owner's whole balance of one token
burnTokens(st, owner, token) ==
  IF st.err # "none" THEN st
  ELSE [st EXCEPT !.bal[owner][token] = 0,
                  !.log = Append(@, Effect("burn", owner, owner, token, st.bal[owner][token]))]

putChainObject(st, newSale) ==
  IF st.err # "none" THEN st
  ELSE [st EXCEPT !.sale = newSale,
                  !.log = Append(@, Effect("put", VAULT, VAULT, MEME, 0))]

\* writeChannelPaymentReceipt followed by writeUserPaymentReceipt
writePaymentReceipts(st, quantity) ==
  IF st.err # "none" THEN st
  ELSE [st EXCEPT !.receipts = @ + 2,
                  !.log = @ \o << Effect("receipt", FEE_ADDRESS, FEE_ADDRESS, NATIVE, quantity),
                                  Effect("receipt", TRADER, FEE_ADDRESS, NATIVE, quantity) >>]

\* fetchAndValidateSale without the test of the sale's status
fetchAndValidateSaleIgnoringEnd(st) ==
  IF st.sale.saleStartTime > now
    THEN Throw(st, "ValidationFailed", "sale not started")
  ELSE st

\* fetchAndValidateSale without the test of the start time
fetchAndValidateSaleIgnoringStart(st) ==
  IF st.sale.saleStatus = "Finished"
    THEN Throw(st, "ValidationFailed", "sale ended")
  ELSE st

\* fetchAndValidateSale: a sale that has ended, or whose start time is after
\* the transaction time, is refused
fetchAndValidateSale(st) ==
  IF st.sale.saleStatus = "Finished"
    THEN Throw(st, "ValidationFailed", "sale ended")
  ELSE IF st.sale.saleStartTime > now
    THEN Throw(st, "ValidationFailed", "sale not started")
  ELSE st

\* ------------------------------------------------------------------ fee payment
\* the maximum compared the wrong way round
FeeBelowMaximum(maxAcceptableFee, feeAmount) ==
  maxAcceptableFee # NoBound /\ feeAmount < maxAcceptableFee

\* maxAcceptableFee && feeAmount.isGreaterThan(maxAcceptableFee)
FeeExceedsMaximum(maxAcceptableFee, feeAmount) ==
  maxAcceptableFee # NoBound /\ feeAmount > maxAcceptableFee

\* payReverseBondingCurveFee writing the receipts before it tests the maximum
payReverseBondingCurveFeeReceiptsFirst(st, nativeTokensToReceive, maxAcceptableFee) ==
  LET feeAmount == calculateReverseBondingCurveFee(st.sale, nativeTokensToReceive)
      written == writePaymentReceipts(st, feeAmount)
  IN  IF st.err # "none" THEN st
      ELSE IF feeAmount = 0 \/ ~feeConfig.present THEN st
      ELSE IF FeeExceedsMaximum(maxAcceptableFee, feeAmount)
        THEN Throw(written, "SlippageToleranceExceeded", "fee exceeds maximum acceptable")
      ELSE transferToken(written, TRADER, FEE_ADDRESS, NATIVE, feeAmount)

\* payReverseBondingCurveFee called after the proceeds: it finds them paid
\* and takes the fee out of them without a receipt
payReverseBondingCurveFeeLate(st, nativeTokensToReceive, maxAcceptableFee) ==
  LET feeAmount == calculateReverseBondingCurveFee(st.sale, nativeTokensToReceive)
      paid == transferToken(st, VAULT, TRADER, NATIVE, nativeTokensToReceive)
  IN  IF st.err # "none" THEN st
      ELSE IF feeAmount = 0 \/ ~feeConfig.present THEN st
      ELSE transferToken(paid, TRADER, FEE_ADDRESS, NATIVE, feeAmount)

payReverseBondingCurveFee(st, nativeTokensToReceive, maxAcceptableFee) ==
  LET feeAmount == calculateReverseBondingCurveFee(st.sale, nativeTokensToReceive)
  IN  IF st.err # "none" THEN st
      ELSE IF feeAmount = 0 \/ ~feeConfig.present THEN st
      ELSE IF FeeExceedsMaximum(maxAcceptableFee, feeAmount)
        THEN Throw(st, "SlippageToleranceExceeded", "fee exceeds maximum acceptable")
      ELSE transferToken(writePaymentReceipts(st, feeAmount),
                         TRADER, FEE_ADDRESS, NATIVE, feeAmount)

\* the balance test without the fee
BalanceBelowPrincipal(buyerBalance, nativeTokensRequired, transactionFees) ==
  buyerBalance < nativeTokensRequired

\* buyerBalance.getQuantityTotal().isLessThan(totalRequired)
BalanceBelowTotalRequired(buyerBalance, nativeTokensRequired, transactionFees) ==
  buyerBalance < nativeTokensRequired + transactionFees

\* transferTransactionFees as the buys call it (nativeTokensRequired given)
transferTransactionFees(st, transactionFees, nativeTokensRequired) ==
  IF st.err # "none" THEN st
  ELSE IF ~feeConfig.present \/ ~(transactionFees > 0) THEN st
  ELSE IF BalanceBelowTotalRequired(st.bal[TRADER][NATIVE], nativeTokensRequired,
                                    transactionFees)
    THEN Throw(st, "ValidationFailed", "Insufficient balance: Total amount required including fee")
  ELSE transferToken(st, TRADER, FEE_ADDRESS, NATIVE, transactionFees)

\* the platform fee transfer of the sells: made whenever a fee configuration
\* exists, without a balance check of its own
transferSellFees(st, transactionFees) ==
  IF st.err # "none" THEN st
  ELSE IF ~feeConfig.present THEN st
  ELSE transferToken(st, TRADER, FEE_ADDRESS, NATIVE, transactionFees)

\* ------------------------------------------------------------------ finalization
\* no LaunchpadFinalizeFeeAllocation stored
NoAllocation ==
  [ present |-> FALSE, platformFeePercentage |-> 0, ownerAllocationPercentage |-> 0,
    liquidityAllocationPercentage |-> 0 ]
platformFeePercentage == IF feeAllocation.present THEN feeAllocation.platformFeePercentage ELSE 1
ownerAllocationPercentage == IF feeAllocation.present THEN feeAllocation.ownerAllocationPercentage ELSE 5
liquidityAllocationPercentage ==
  IF feeAllocation.present THEN feeAllocation.liquidityAllocationPercentage ELSE 94

\* createPool for every finalization
createPoolAlways(st) ==
  IF st.err # "none" THEN st
  ELSE [st EXCEPT !.pool = TRUE,
                  !.log = Append(@, Effect("createPool", VAULT, POOL, MEME, 0))]

\* getPoolData and, when there is no pool for the pair, createPool
createPoolIfAbsent(st) ==
  IF st.err # "none" THEN st
  ELSE IF st.pool THEN st
  ELSE [st EXCEPT !.pool = TRUE,
                  !.log = Append(@, Effect("createPool", VAULT, POOL, MEME, 0))]

\* the liquidity-pool collaborator: the pool takes the native liquidity and
\* the selling tokens that match it at the final price (under one token unit
\* per native unit), both in amounts it rounds to the tokens' decimals; it
\* fails as a whole when it is unavailable
addLiquidity(st, poolAvailable, nativeAmount) ==
  IF st.err # "none" THEN st
  ELSE IF ~poolAvailable THEN Throw(st, "PoolUnavailable", "addLiquidity")
  ELSE transferToken(transferToken(st, VAULT, POOL, NATIVE,
                                   RoundDownTo(nativeAmount, decimals[NATIVE])),
                     VAULT, POOL, MEME, IF nativeAmount > 0 THEN decimals[MEME] ELSE 0)

\* finalizeSale without the test of the fee configuration
finalizeSaleWithoutFeeConfiguration(st, poolAvailable) ==
  LET nativeTokenQuantity == st.sale.nativeTokenQuantity
      s1 == transferToken(st, VAULT, SALE_OWNER, NATIVE,
              RoundDown(nativeTokenQuantity * ownerAllocationPercentage, 100))
      s2 == transferToken(s1, VAULT, FEE_ADDRESS, NATIVE,
              RoundDown(nativeTokenQuantity * platformFeePercentage, 100))
      s3 == addLiquidity(createPoolIfAbsent(s2), poolAvailable,
              RoundDown(nativeTokenQuantity * liquidityAllocationPercentage, 100))
      s4 == burnTokens(s3, VAULT, MEME)
      s5 == burnTokens(s4, VAULT, NATIVE)
  IN  putChainObject(s5, finalizeSaleRecord(s5.sale))

\* finalizeSale rounding the owner and platform allocations up
finalizeSaleRoundingUp(st, poolAvailable) ==
  LET nativeTokenQuantity == st.sale.nativeTokenQuantity
      s1 == transferToken(st, VAULT, SALE_OWNER, NATIVE,
              RoundUp(nativeTokenQuantity * ownerAllocationPercentage, 100))
      s2 == transferToken(s1, VAULT, FEE_ADDRESS, NATIVE,
              RoundUp(nativeTokenQuantity * platformFeePercentage, 100))
      s3 == addLiquidity(createPoolIfAbsent(s2), poolAvailable,
              RoundDown(nativeTokenQuantity * liquidityAllocationPercentage, 100))
      s4 == burnTokens(s3, VAULT, MEME)
      s5 == burnTokens(s4, VAULT, NATIVE)
  IN  IF st.err # "none" THEN st
      ELSE IF ~feeConfig.present
        THEN Throw(st, "PreConditionFailed", "Platform fee configuration is yet to be defined.")
      ELSE putChainObject(s5, finalizeSaleRecord(s5.sale))

finalizeSale(st, poolAvailable) ==
  LET nativeTokenQuantity == st.sale.nativeTokenQuantity
      s1 == transferToken(st, VAULT, SALE_OWNER, NATIVE,
              RoundDown(nativeTokenQuantity * ownerAllocationPercentage, 100))
      s2 == transferToken(s1, VAULT, FEE_ADDRESS, NATIVE,
              RoundDown(nativeTokenQuantity * platformFeePercentage, 100))
      s3 == addLiquidity(createPoolIfAbsent(s2), poolAvailable,
              RoundDown(nativeTokenQuantity * liquidityAllocationPercentage, 100))
      s4 == burnTokens(s3, VAULT, MEME)
      s5 == burnTokens(s4, VAULT, NATIVE)
  IN  IF st.err # "none" THEN st
      ELSE IF ~feeConfig.present
        THEN Throw(st, "PreConditionFailed", "Platform fee configuration is yet to be defined.")
      ELSE putChainObject(s5, finalizeSaleRecord(s5.sale))

\* ------------------------------------------------------------------ requests
\* token quantities a trader asks for
TokenQuantities == {1, 2, 4, 6, 9, 10, 11}
\* native quantities a trader asks for
NativeQuantities == {1, 3, 9, 16, 17, 20}
\* expectedNativeToken / expectedToken of a request
ExpectedBounds == {NoBound, 2, 6}
\* extraFees.maxAcceptableReverseBondingCurveFee of a request
FeeBounds == {NoBound, 1, 2}

NoRequest ==
  [ op |-> "none", quantity |-> 0, expected |-> NoBound, maxFee |-> NoBound ]

\* totalTokenSold of the receipt: sale.fetchTokensSold() after the writes of
\* the method; the receipt of sellWithNative has no such field
ReceiptTokensSold(op, stored) ==
  IF op = "sellWithNative" THEN NoBound ELSE fetchTokensSold(stored)

\* the outcome of a transaction: what it computed, the receipt it returned
\* when it succeeded, the writes it made and the state it started from
Outcome(req, st, tokens, native, fees, rbcFee, finalized, totalFees) ==
  [ op |-> req.op, quantity |-> req.quantity, expected |-> req.expected,
    maxFee |-> req.maxFee, time |-> now,
    err |-> st.err, msg |-> st.msg,
    tokens |-> tokens, native |-> native, fees |-> fees, rbcFee |-> rbcFee,
    isFinalized |-> finalized, totalFees |-> totalFees,
    totalTokenSold |-> ReceiptTokensSold(req.op, st.sale),
    log |-> st.log,
    preSale |-> sale, preBal |-> bal, preReceipts |-> feeReceipts, prePool |-> pool ]

\* the request of an outcome and the ledger it was submitted to
Refusal(outcome) ==
  [ op |-> outcome.op, quantity |-> outcome.quantity, expected |-> outcome.expected,
    maxFee |-> outcome.maxFee, sale |-> outcome.preSale, bal |-> outcome.preBal ]

\* the end of a contract method: its writes are persisted when it returns
\* and dropped when it throws.  A transaction that throws leaves the ledger
\* as it found it, so whatever can follow it could have been submitted in its
\* place: a run is followed up to its first failed transaction.
Submit(st, outcome) ==
  /\ txCount < MaxTx
  /\ last.err = "none"
  /\ txCount' = txCount + 1
  /\ IF st.err = "none"
       THEN /\ sale' = st.sale
            /\ bal' = st.bal
            /\ feeReceipts' = st.receipts
            /\ pool' = st.pool
       ELSE UNCHANGED << sale, bal, feeReceipts, pool >>
  /\ last' = outcome
  /\ refused' = IF outcome.err = "PreConditionFailed" THEN Refusal(outcome) ELSE refused
  /\ UNCHANGED << feeConfig, feeAllocation, decimals, now, tradeData, batchSubmitAuthorities >>

\* ------------------------------------------------------------------ slippage
\* buyExactToken: expectedNativeToken && expectedNativeToken < nativeTokensRequired
CostAboveExpected(expectedNativeToken, nativeTokensRequired) ==
  expectedNativeToken # NoBound /\ expectedNativeToken < nativeTokensRequired

\* the expected tokens compared the wrong way round
TokensAboveExpectedBuy(expectedToken, tokensToBuy) ==
  expectedToken # NoBound /\ expectedToken < tokensToBuy

\* buyWithNative: expectedToken && expectedToken > tokensToBuy
TokensBelowExpected(expectedToken, tokensToBuy) ==
  expectedToken # NoBound /\ expectedToken > tokensToBuy

\* sellExactToken: expectedNativeToken && expectedNativeToken.comparedTo(payout) > 0
PayoutBelowExpected(expectedNativeToken, nativeTokensPayout) ==
  expectedNativeToken # NoBound /\ expectedNativeToken > nativeTokensPayout

\* sellWithNative: expectedToken && expectedToken.comparedTo(tokensToSell) < 0;
\* comparedTo yields null, and the test is false, when tokensToSell is NaN
TokensAboveExpected(expectedToken, tokensToSell) ==
  expectedToken # NoBound /\ tokensToSell # NaN /\ expectedToken < tokensToSell

\* ------------------------------------------------------------------ buyExactToken
buyExactTokenTx(req, poolAvailable) ==
  LET s0 == fetchAndValidateSale(StartTx)
      tokensLeftInVault == s0.sale.sellingTokenQuantity
      res == callNativeTokenIn(s0.sale, feeConfig, req.quantity)
      tokensToBuy == res.originalQuantity
      nativeTokensRequired == res.calculatedQuantity
      transactionFees == res.transactionFees
      isSaleFinalized == tokensLeftInVault <= req.quantity
      s1 == IF CostAboveExpected(req.expected, nativeTokensRequired)
              THEN Throw(s0, "SlippageToleranceExceeded", "expected native")
              ELSE s0
      s2 == transferTransactionFees(s1, transactionFees, nativeTokensRequired)
      s3 == transferToken(s2, TRADER, VAULT, NATIVE, nativeTokensRequired)
      s4 == transferToken(s3, VAULT, TRADER, MEME, tokensToBuy)
      s5 == putChainObject(s4, buyToken(s4.sale, tokensToBuy, nativeTokensRequired))
      s6 == IF isSaleFinalized THEN finalizeSale(s5, poolAvailable) ELSE s5
  IN  << s6, Outcome(req, s6, tokensToBuy, nativeTokensRequired, transactionFees, 0,
                     isSaleFinalized, transactionFees) >>

buyExactToken ==
  \E quantity \in TokenQuantities, expected \in ExpectedBounds, poolAvailable \in BOOLEAN :
    LET req == [ op |-> "buyExactToken", quantity |-> quantity,
                 expected |-> expected, maxFee |-> NoBound ]
        tx == buyExactTokenTx(req, poolAvailable)
    IN  Submit(tx[1], tx[2])

\* ------------------------------------------------------------------ buyWithNative
buyWithNativeTx(req, poolAvailable) ==
  LET s0 == fetchAndValidateSale(StartTx)
      res == callMemeTokenOut(s0.sale, feeConfig, decimals, req.quantity, FALSE)
      transactionFees == res.transactionFees
      nativeTokensRequired == res.originalQuantity
      tokensToBuy == RoundHalfUpTo(res.calculatedQuantity, decimals[MEME])
      isSaleFinalized == req.quantity + s0.sale.nativeTokenQuantity >= MARKET_CAP
      s1 == IF TokensBelowExpected(req.expected, tokensToBuy)
              THEN Throw(s0, "SlippageToleranceExceeded", "expected token")
              ELSE s0
      s2 == transferTransactionFees(s1, transactionFees, nativeTokensRequired)
      s3 == transferToken(s2, TRADER, VAULT, NATIVE, nativeTokensRequired)
      s4 == transferToken(s3, VAULT, TRADER, MEME, tokensToBuy)
      s5 == putChainObject(s4, buyToken(s4.sale, tokensToBuy, nativeTokensRequired))
      s6 == IF isSaleFinalized THEN finalizeSale(s5, poolAvailable) ELSE s5
  IN  << s6, Outcome(req, s6, tokensToBuy, nativeTokensRequired, transactionFees, 0,
                     isSaleFinalized, transactionFees) >>

buyWithNative ==
  \E quantity \in NativeQuantities, expected \in ExpectedBounds, poolAvailable \in BOOLEAN :
    LET req == [ op |-> "buyWithNative", quantity |-> quantity,
                 expected |-> expected, maxFee |-> NoBound ]
        tx == buyWithNativeTx(req, poolAvailable)
    IN  Submit(tx[1], tx[2])

\* ------------------------------------------------------------------ sellExactToken
\* a fee bound that was left out counts as zero in the receipt
OrZero(bound) == IF bound = NoBound THEN 0 ELSE bound

sellExactTokenTx(req) ==
  LET s0 == fetchAndValidateSale(StartTx)
      res == callNativeTokenOut(s0.sale, feeConfig, req.quantity)
      tokensBeingSold == res.originalQuantity
      nativeTokensPayout == res.calculatedQuantity
      transactionFees == res.transactionFees
      nativeTokensLeftInVault == s0.sale.nativeTokenQuantity
      \* compares the token quantity of the request with the native quantity
      s1 == IF req.quantity * TokenUnit > nativeTokensLeftInVault * NativeUnit
              THEN Throw(s0, "ValidationFailed", "Not enough GALA in sale contract")
              ELSE s0
      s2 == IF PayoutBelowExpected(req.expected, nativeTokensPayout)
              THEN Throw(s1, "SlippageToleranceExceeded", "expected native")
              ELSE s1
      s3 == payReverseBondingCurveFee(s2, nativeTokensPayout, req.maxFee)
      s4 == transferSellFees(s3, transactionFees)
      s5 == transferToken(s4, TRADER, VAULT, MEME, tokensBeingSold)
      s6 == transferToken(s5, VAULT, TRADER, NATIVE, nativeTokensPayout)
      s7 == putChainObject(s6, sellToken(s6.sale, tokensBeingSold, nativeTokensPayout))
  IN  << s7, Outcome(req, s7, tokensBeingSold, nativeTokensPayout, transactionFees,
                     res.reverseBondingCurve, FALSE,
                     transactionFees + OrZero(req.maxFee)) >>

sellExactToken ==
  \E quantity \in TokenQuantities, expected \in ExpectedBounds, maxFee \in FeeBounds :
    LET req == [ op |-> "sellExactToken", quantity |-> quantity,
                 expected |-> expected, maxFee |-> maxFee ]
        tx == sellExactTokenTx(req)
    IN  Submit(tx[1], tx[2])

\* ------------------------------------------------------------------ sellWithNative
sellWithNativeTx(req) ==
  LET s0 == fetchAndValidateSale(StartTx)
      nativeTokensLeftInVault == s0.sale.nativeTokenQuantity
      s1 == IF nativeTokensLeftInVault < req.quantity
              THEN Throw(s0, "ValidationFailed", "Not enough GALA in sale contract")
              ELSE s0
      res == callMemeTokenIn(s0.sale, feeConfig, decimals, req.quantity)
      transactionFees == res.transactionFees
      tokensToSell == res.calculatedQuantity
      s2 == IF TokensAboveExpected(req.expected, tokensToSell)
              THEN Throw(s1, "SlippageToleranceExceeded", "expected token")
              ELSE s1
      s3 == payReverseBondingCurveFee(s2, req.quantity, req.maxFee)
      s4 == transferSellFees(s3, transactionFees)
      s5 == transferToken(s4, TRADER, VAULT, MEME, tokensToSell)
      s6 == transferToken(s5, VAULT, TRADER, NATIVE, req.quantity)
      s7 == putChainObject(s6, sellToken(s6.sale, tokensToSell, req.quantity))
  IN  << s7, Outcome(req, s7, tokensToSell, req.quantity, transactionFees,
                     calculateReverseBondingCurveFee(s0.sale, req.quantity), FALSE,
                     transactionFees + OrZero(req.maxFee)) >>

sellWithNative ==
  \E quantity \in NativeQuantities, expected \in ExpectedBounds, maxFee \in FeeBounds :
    LET req == [ op |-> "sellWithNative", quantity |-> quantity,
                 expected |-> expected, maxFee |-> maxFee ]
        tx == sellWithNativeTx(req)
    IN  Submit(tx[1], tx[2])

\* ------------------------------------------------------------------ fee configuration
\* newFeeAmount of a ConfigureLaunchpadFeeAddressDto: absent, 0 or 0.25
NewFeeAmounts == {NoBound, 0, 25}

\* dto.newAuthorities left out, and the lists a request carries
NoAuthorities == {"undefined"}
NewAuthorities == {NoAuthorities, {}}
\* dto.newPlatformFeeAddress of a request: the trades of the model pay their
\* fees to FEE_ADDRESS, which is the only address stored while they run
NewAddresses == {NoAddress, FEE_ADDRESS}

\* the validators of LaunchpadFeeConfig, which putChainObject applies: a fee
\* address, a fee amount in [0, 1], at least one authority
ValidFeeConfig(config) ==
  /\ config.feeAddress # NoAddress
  /\ config.feeAmount \in 0..100
  /\ config.authorities # {}

\* updateFeeConfig that takes a fee amount of 0 for one left out
updateFeeConfigZeroAsAbsent(config, newfeeAddress, newFeeAmount, newAuthorities) ==
  [ config EXCEPT !.feeAddress = newfeeAddress,
                  !.feeAmount = IF newFeeAmount = 0 THEN @ ELSE newFeeAmount,
                  !.authorities = newAuthorities ]

\* updateFeeConfig(newfeeAddress, newFeeAmount, newAuthorities)
updateFeeConfig(config, newfeeAddress, newFeeAmount, newAuthorities) ==
  [ config EXCEPT !.feeAddress = newfeeAddress,
                  !.feeAmount = newFeeAmount,
                  !.authorities = newAuthorities ]

\* putChainObject storing the configuration without validating it
putFeeConfigUnchecked(st, config) ==
  << st, config >>

\* putChainObject(ctx, platformFeeAddress) at the end of the method
putFeeConfig(st, config) ==
  IF ValidFeeConfig(config)
    THEN << st, config >>
    ELSE << Throw(st, "ValidationFailed", "the fee configuration is not valid"), feeConfig >>

\* the test of the initial setup asking for the address alone
InitialSetupIncompleteAddressOnly(newPlatformFeeAddress, newFeeAmount) ==
  newPlatformFeeAddress = NoAddress

\* !dto.newPlatformFeeAddress || !dto.newFeeAmount: a fee amount of 0 counts
\* as left out
InitialSetupIncomplete(newPlatformFeeAddress, newFeeAmount) ==
  newPlatformFeeAddress = NoAddress \/ newFeeAmount = NoBound \/ newFeeAmount = 0

\* configureLaunchpadFeeAddress: a request without any field is refused; a
\* caller outside the curator organisation must be one of the stored
\* authorities; the first configuration needs an address and a fee amount
\* that is not zero and takes the caller as authority when none is given; a
\* later call updates the stored configuration if the caller is one of its
\* authorities, keeping the fields the request leaves out, and is refused
\* otherwise
configureLaunchpadFeeAddressTx(st, callingUser, newPlatformFeeAddress, newFeeAmount, newAuthorities) ==
  IF /\ newPlatformFeeAddress = NoAddress
     /\ newAuthorities \in {NoAuthorities, {}}
     /\ newFeeAmount = NoBound
    THEN << Throw(st, "ValidationFailed", "None of the input fields are present."), feeConfig >>
  ELSE IF callingUser # CURATOR
          /\ (~feeConfig.present \/ callingUser \notin feeConfig.authorities)
    THEN << Throw(st, "Unauthorized", "not authorized to create or update"), feeConfig >>
  ELSE IF ~feeConfig.present
    THEN IF InitialSetupIncomplete(newPlatformFeeAddress, newFeeAmount)
           THEN << Throw(st, "ValidationFailed", "Must provide a fee address and fee amount"),
                   feeConfig >>
           ELSE putFeeConfig(st, [ present |-> TRUE,
                                   feeAddress |-> newPlatformFeeAddress,
                                   feeAmount |-> newFeeAmount,
                                   authorities |-> IF newAuthorities = NoAuthorities
                                                     THEN {callingUser}
                                                     ELSE newAuthorities ])
  ELSE IF callingUser \in feeConfig.authorities
    THEN putFeeConfig(st, updateFeeConfig(feeConfig,
                            IF newPlatformFeeAddress = NoAddress THEN feeConfig.feeAddress
                              ELSE newPlatformFeeAddress,
                            IF newFeeAmount = NoBound THEN feeConfig.feeAmount
                              ELSE newFeeAmount,
                            IF newAuthorities = NoAuthorities THEN feeConfig.authorities
                              ELSE newAuthorities))
  ELSE << Throw(st, "Unauthorized", "not authorized to create or update"), feeConfig >>

\* The configuration is created or updated between trades.  A buy refused
\* with PreConditionFailed left the ledger as it found it, so the run goes
\* on with the creation of the configuration.
configureLaunchpadFeeAddress ==
  \E callingUser \in Callers, newPlatformFeeAddress \in NewAddresses, newFeeAmount \in NewFeeAmounts, newAuthorities \in NewAuthorities :
    LET req == [ op |-> "configureLaunchpadFeeAddress", quantity |-> newFeeAmount,
                 expected |-> NoBound, maxFee |-> NoBound ]
        tx == configureLaunchpadFeeAddressTx(StartTx, callingUser, newPlatformFeeAddress, newFeeAmount, newAuthorities)
    IN  /\ txCount < MaxTx
        /\ last.err \in {"none", "PreConditionFailed"}
        /\ txCount' = txCount + 1
        /\ feeConfig' = tx[2]
        /\ last' = Outcome(req, tx[1], 0, 0, 0, 0, FALSE, 0)
        /\ UNCHANGED << sale, bal, feeAllocation, feeReceipts, decimals, pool, now, refused, tradeData, batchSubmitAuthorities >>

\* ------------------------------------------------------------------ time
\* the next transaction carries a later txUnixTime; the time matters only in
\* the comparison with saleStartTime, so it is followed until the sale starts
AdvanceTime ==
  /\ now < MaxTime
  /\ now < sale.saleStartTime
  /\ now' = now + 1
  /\ UNCHANGED << sale, bal, feeConfig, feeAllocation, feeReceipts, decimals, pool, txCount,
                  last, refused, tradeData, batchSubmitAuthorities >>

\* ------------------------------------------------------------------ specification
\* adjustableSupplyMultiplier given to the constructor: undefined, 0.5, 1, 2
Multipliers == {0, 1, 2, 4}
FeeConfigs ==
  { NoConfig,
    [present |-> TRUE, feeAddress |-> FEE_ADDRESS, feeAmount |-> 0, authorities |-> {FEE_ADDRESS}],
    [present |-> TRUE, feeAddress |-> FEE_ADDRESS, feeAmount |-> 25, authorities |-> {FEE_ADDRESS}] }
RbcConfigs == { NoRbc, [present |-> TRUE, minFeePortion |-> 10, maxFeePortion |-> 50] }
Allocations ==
  { NoAllocation,
    [ present |-> TRUE, platformFeePercentage |-> 10, ownerAllocationPercentage |-> 40,
      liquidityAllocationPercentage |-> 50 ] }

\* the token classes: both with the engine's decimals, the native token
\* with fewer, the selling token with fewer
FineDecimals == [ t \in Tokens |-> 1 ]
TokenDecimals ==
  { FineDecimals,
    [ t \in Tokens |-> IF t = NATIVE THEN CoarseStep ELSE 1 ],
    [ t \in Tokens |-> IF t = MEME THEN CoarseStep ELSE 1 ] }

\* the sales and configurations explored: every multiplier with and without
\* a platform fee, and for the unit multiplier also a reverse bonding curve
\* fee, a future start time, a stored finalize allocation and token classes
\* with fewer decimals, a pool that exists before the sale ends
Configurations ==
  { c \in [ mh : Multipliers, rbc : RbcConfigs, start : {0, MaxTime},
            fee : FeeConfigs, alloc : Allocations, dec : TokenDecimals, pool : BOOLEAN ] :
      \/ /\ c.rbc = NoRbc /\ c.start = 0 /\ c.alloc = NoAllocation
         /\ c.fee.feeAmount # 0 \/ ~c.fee.present
         /\ c.dec = FineDecimals /\ ~c.pool
      \/ /\ c.mh = MulDen /\ c.start = 0 /\ c.alloc = NoAllocation /\ c.rbc # NoRbc
         /\ c.dec = FineDecimals /\ ~c.pool
      \/ /\ c.mh = MulDen /\ c.rbc = NoRbc /\ c.fee.feeAmount # 0
         /\ (c.start = 0) # (c.alloc = NoAllocation)
         /\ c.dec = FineDecimals /\ ~c.pool
      \/ /\ c.mh = MulDen /\ c.rbc = NoRbc /\ c.start = 0 /\ c.alloc = NoAllocation
         /\ c.fee.feeAmount # 0 /\ c.fee.present
         /\ c.dec # FineDecimals /\ ~c.pool
      \/ /\ c.mh = MulDen /\ c.rbc = NoRbc /\ c.start = 0 /\ c.alloc = NoAllocation
         /\ c.fee.feeAmount # 0 /\ c.fee.present
         /\ c.dec = FineDecimals /\ c.pool }

Init ==
  \E c \in Configurations :
    /\ sale = NewLaunchpadSale(c.rbc, c.start, c.mh)
    /\ bal = [ o \in Owners |->
                 [ t \in Tokens |->
                     IF o = VAULT /\ t = MEME THEN 2 * sale.maxSupply
                     ELSE IF o = TRADER /\ t = NATIVE THEN UserNative
                     ELSE 0 ] ]
    /\ feeConfig = c.fee
    /\ feeAllocation = c.alloc
    /\ feeReceipts = 0
    /\ decimals = c.dec
    /\ pool = c.pool
    /\ now = 0
    /\ txCount = 0
    /\ last = Outcome(NoRequest, StartTx, 0, 0, 0, 0, FALSE, 0)
    /\ refused = Refusal(Outcome(NoRequest, StartTx, 0, 0, 0, 0, FALSE, 0))
    /\ NoSideState

Next ==
  \/ buyExactToken
  \/ buyWithNative
  \/ sellExactToken
  \/ sellWithNative
  \/ configureLaunchpadFeeAddress
  \/ AdvanceTime

Spec == Init /\ [][Next]_vars

\* ------------------------------------------------------------------ claims
Buys == {"buyExactToken", "buyWithNative"}
Sells == {"sellExactToken", "sellWithNative"}
Succeeded == last.err = "none"
BuySucceeded == last.op \in Buys /\ Succeeded
SellSucceeded == last.op \in Sells /\ Succeeded

\* C1: the tokens sold never exceed maxSupply, every successful buy delivers
\* at most the inventory that remained, and a buyExactToken that asks for
\* more than the remaining inventory delivers exactly the remaining inventory.
C1_SupplyCap ==
  /\ fetchTokensSold(sale) <= sale.maxSupply
  /\ BuySucceeded => last.tokens <= last.preSale.sellingTokenQuantity
  /\ (last.op = "buyExactToken" /\ Succeeded
        /\ last.quantity > last.preSale.sellingTokenQuantity)
       => last.tokens = last.preSale.sellingTokenQuantity

\* C2: the sale's native quantity never exceeds MARKET_CAP, a successful buy
\* is charged at most the native amount that reaches the cap, and a buy that
\* is charged up to the cap finalizes the sale.
C2_MarketCap ==
  /\ sale.nativeTokenQuantity <= MARKET_CAP
  /\ BuySucceeded =>
       /\ last.preSale.nativeTokenQuantity + last.native <= MARKET_CAP
       /\ last.preSale.nativeTokenQuantity + last.native = MARKET_CAP
            => last.isFinalized /\ sale.saleStatus = "Finished"

\* C3: a successful buy that takes all the remaining inventory, or brings the
\* native quantity to or past MARKET_CAP, finalizes within the trade (receipt
\* isFinalized, stored sale Finished with no inventory), so an Ongoing sale
\* never has zero inventory or its native quantity at the cap.
C3_FinalizationCompleteness ==
  /\ (BuySucceeded
        /\ \/ last.tokens >= last.preSale.sellingTokenQuantity
           \/ last.preSale.nativeTokenQuantity + last.native >= MARKET_CAP)
       => /\ last.isFinalized
          /\ sale.saleStatus = "Finished"
          /\ sale.sellingTokenQuantity = 0
  /\ sale.saleStatus # "Finished"
       => /\ sale.sellingTokenQuantity > 0
          /\ sale.nativeTokenQuantity < MARKET_CAP

Trades == Buys \cup Sells
\* the latest transaction threw and nothing it did was persisted
Unchanged ==
  /\ sale = last.preSale
  /\ bal = last.preBal
  /\ feeReceipts = last.preReceipts
  /\ pool = last.prePool
\* the latest transaction threw err before it wrote anything
RejectedEarly(err) ==
  /\ last.err = err
  /\ last.log = << >>
  /\ Unchanged
\* the sale the latest transaction found was open for trading
FoundOpenSale ==
  /\ last.preSale.saleStatus # "Finished"
  /\ last.preSale.saleStartTime <= last.time

\* C4: once the sale is Finished, every buyExactToken, buyWithNative,
\* sellExactToken and sellWithNative is rejected with an error and leaves the
\* sale record, the balances and the fee receipts unchanged.
C4_FinishedRejectsTrades ==
  (last.op \in Trades /\ last.preSale.saleStatus = "Finished")
    => /\ last.err # "none"
       /\ last.log = << >>
       /\ Unchanged

\* a trade was submitted against a Finished sale and rejected
C4_Witness ==
  /\ last.op \in Sells
  /\ last.preSale.saleStatus = "Finished"
  /\ last.err = "ValidationFailed"

StatusRank(status) ==
  CASE status = "Upcoming" -> 0
    [] status = "Ongoing" -> 1
    [] status = "Finished" -> 2

\* C5: the stored status only moves forward (Upcoming, Ongoing, Finished), a
\* Finished sale stays Finished, a sale becomes Finished only in a successful
\* buy that reports isFinalized, and a sell never changes the status and
\* always reports isFinalized = false.
C5_StatusForwardOnly ==
  [][ /\ StatusRank(sale'.saleStatus) >= StatusRank(sale.saleStatus)
      /\ sale.saleStatus = "Finished" => sale'.saleStatus = "Finished"
      /\ (sale.saleStatus # "Finished" /\ sale'.saleStatus = "Finished")
           => (last'.op \in Buys /\ last'.err = "none" /\ last'.isFinalized)
      /\ (txCount' # txCount /\ last'.op \in Sells)
           => (sale'.saleStatus = sale.saleStatus /\ ~last'.isFinalized)
    ]_vars

\* a buy finalized a sale whose stored status was still Upcoming
C5_Witness ==
  /\ BuySucceeded
  /\ last.isFinalized
  /\ last.preSale.saleStatus = "Upcoming"
  /\ sale.saleStatus = "Finished"

\* C6 (as the code has it): every failed trade leaves the sale record, the
\* balances and the fee receipts as before the call; a trade that fails a
\* validation, a slippage bound, the fee maximum or the balance test for
\* principal plus fee fails before its first transfer or write, and only a
\* refused ledger transfer or a failed finalization comes after earlier writes.
C6_FailureAtomic ==
  (last.op \in Trades /\ last.err # "none")
    => /\ Unchanged
       /\ last.err \in {"ValidationFailed", "SlippageToleranceExceeded"}
            => last.log = << >>
       /\ last.log # << >>
            => last.err \in {"InsufficientBalance", "InvalidDecimal",
                             "PreConditionFailed", "PoolUnavailable"}

\* a buy made its transfers and its write and then failed in finalization
C6_Witness ==
  /\ last.op \in Buys
  /\ last.err = "PreConditionFailed"
  /\ last.log # << >>
  /\ Unchanged

\* C6 (as stated): every failed trade leaves the sale record, the balances
\* and the fee receipts as before the call, and it failed before its first
\* transfer or write: every check that can fail completes before the first
\* write.
C6_ChecksBeforeWrites ==
  (last.op \in Trades /\ last.err # "none")
    => /\ Unchanged
       /\ last.log = << >>

\* the two legs of a sell: the seller's tokens to the vault and the native
\* proceeds from the vault to the seller
IsSellLeg(e) ==
  /\ e.kind = "transfer"
  /\ \/ e.from = TRADER /\ e.to = VAULT /\ e.token = MEME
     \/ e.from = VAULT /\ e.to = TRADER /\ e.token = NATIVE
\* the log starts with the two fee receipts and the fee transfer from the seller
FeePaidFirst ==
  /\ Len(last.log) >= 3
  /\ last.log[1].kind = "receipt"
  /\ last.log[2].kind = "receipt"
  /\ last.log[3] = Effect("transfer", TRADER, FEE_ADDRESS, NATIVE, last.rbcFee)
\* every leg of the sell comes after the fee receipts and the fee transfer
LegsAfterFee ==
  \A i \in DOMAIN last.log : IsSellLeg(last.log[i]) => (FeePaidFirst /\ i > 3)

ReachedSlippageCheck ==
  /\ FoundOpenSale
  /\ last.op = "sellExactToken"
       => last.quantity * TokenUnit <= last.preSale.nativeTokenQuantity * NativeUnit
  /\ last.op = "sellWithNative"
       => last.quantity <= last.preSale.nativeTokenQuantity
\* the latest request is outside the caller's bound
OutsideBound ==
  /\ last.expected # NoBound
  /\ \/ last.op = "buyExactToken" /\ last.expected < last.native
     \/ last.op = "buyWithNative" /\ last.expected > last.tokens
     \/ last.op = "sellExactToken" /\ last.expected > last.native
     \/ last.op = "sellWithNative" /\ last.tokens # NaN /\ last.expected < last.tokens

\* C8: a trade whose rate is outside the caller's bound (cost above
\* expectedNativeToken, tokens below expectedToken, payout below
\* expectedNativeToken, tokens required above expectedToken) fails with
\* SlippageToleranceExceeded and changes nothing; a trade that succeeds
\* satisfies its bound.
C8_Slippage ==
  /\ (last.op \in Trades /\ ReachedSlippageCheck /\ OutsideBound)
       => RejectedEarly("SlippageToleranceExceeded")
  /\ (last.op \in Trades /\ Succeeded) => ~OutsideBound

\* a buyWithNative was refused because it delivers fewer tokens than expected
C8_Witness ==
  /\ last.op = "buyWithNative"
  /\ OutsideBound
  /\ last.err = "SlippageToleranceExceeded"

\* the reverse bonding curve fee the latest sell transferred
FeeCharged == IF FeePaidFirst THEN last.log[3].quantity ELSE 0
\* the latest sell got as far as the fee with a fee above the caller's maximum
FeeAboveMaximum ==
  /\ last.op \in Sells
  /\ ReachedSlippageCheck
  /\ ~OutsideBound
  /\ last.maxFee # NoBound
  /\ last.rbcFee > last.maxFee

C10_InsufficientBalance ==
  (/\ last.op \in Buys
   /\ FoundOpenSale
   /\ ~OutsideBound
   /\ feeConfig.present
   /\ last.fees > 0
   /\ last.preBal[TRADER][NATIVE] < last.native + last.fees)
    => /\ RejectedEarly("ValidationFailed")
       /\ last.msg = "Insufficient balance: Total amount required including fee"

\* a buy was refused for a balance that covers the principal but not the fee
C10_Witness ==
  /\ last.op \in Buys
  /\ last.msg = "Insufficient balance: Total amount required including fee"
  /\ last.preBal[TRADER][NATIVE] >= last.native

\* C11 (as stated): the stored sellingTokenQuantity and nativeTokenQuantity
\* are never negative; a buy never increases sellingTokenQuantity and never
\* decreases nativeTokenQuantity, and a sell never decreases
\* sellingTokenQuantity and never increases nativeTokenQuantity.
C11_AsStated ==
  /\ sale.sellingTokenQuantity >= 0
  /\ sale.nativeTokenQuantity >= 0
  /\ BuySucceeded
       => /\ sale.sellingTokenQuantity <= last.preSale.sellingTokenQuantity
          /\ sale.nativeTokenQuantity >= last.preSale.nativeTokenQuantity
  /\ SellSucceeded
       => /\ sale.sellingTokenQuantity >= last.preSale.sellingTokenQuantity
          /\ sale.nativeTokenQuantity <= last.preSale.nativeTokenQuantity

\* C11 (as the code has it): the stored sellingTokenQuantity and
\* nativeTokenQuantity are never negative; the amounts a successful trade
\* applies are never negative, so a buy that does not finalize the sale never
\* increases sellingTokenQuantity and never decreases nativeTokenQuantity and
\* a sell never decreases sellingTokenQuantity and never increases
\* nativeTokenQuantity; a buy that finalizes the sale sets both to zero.
C11_QuantitiesMonotone ==
  /\ sale.sellingTokenQuantity >= 0
  /\ sale.nativeTokenQuantity >= 0
  /\ (last.op \in Trades /\ Succeeded) => (last.tokens >= 0 /\ last.native >= 0)
  /\ (BuySucceeded /\ ~last.isFinalized)
       => /\ sale.sellingTokenQuantity
               = last.preSale.sellingTokenQuantity - last.tokens
          /\ sale.nativeTokenQuantity
               = last.preSale.nativeTokenQuantity + last.native
  /\ (BuySucceeded /\ last.isFinalized)
       => (sale.sellingTokenQuantity = 0 /\ sale.nativeTokenQuantity = 0)
  /\ SellSucceeded
       => /\ sale.sellingTokenQuantity
               = last.preSale.sellingTokenQuantity + last.tokens
          /\ sale.nativeTokenQuantity
               = last.preSale.nativeTokenQuantity - last.native

\* a buy moved both quantities and a sell moved them back part of the way
C11_Witness ==
  /\ SellSucceeded
  /\ last.tokens > 0
  /\ last.native > 0
  /\ sale.sellingTokenQuantity > last.preSale.sellingTokenQuantity
  /\ sale.nativeTokenQuantity < last.preSale.nativeTokenQuantity
  /\ sale.nativeTokenQuantity > 0

\* C12: a sellExactToken or sellWithNative whose native payout is greater
\* than the sale's nativeTokenQuantity fails with ValidationFailed ("Not
\* enough GALA in sale contract") and changes nothing, and a sell whose
\* payout is within the sale's nativeTokenQuantity is not rejected by that
\* check.
C12_VaultCheck ==
  (last.op \in Sells /\ FoundOpenSale)
    => /\ last.native > last.preSale.nativeTokenQuantity
            => /\ RejectedEarly("ValidationFailed")
               /\ last.msg = "Not enough GALA in sale contract"
       /\ last.native <= last.preSale.nativeTokenQuantity
            => last.msg # "Not enough GALA in sale contract"

\* a sellExactToken of tokens the trader bought, with a payout the sale can
\* cover, was refused by the vault check
C12_Witness ==
  /\ last.op = "sellExactToken"
  /\ last.msg = "Not enough GALA in sale contract"
  /\ last.tokens > 0
  /\ last.native > 0
  /\ last.native <= last.preSale.nativeTokenQuantity

\* the native amount (in GALA) the sale's curve implies for the tokens sold
ImpliedReserve(s) == Curve(ScaledPos(fetchTokensSold(s), s.adjustableSupplyMultiplier))
\* buying tokenQuantity with buyExactToken from sale s and selling the same
\* quantity back with sellExactToken, without fees: << native paid, native paid out >>
RoundTrip(s, tokenQuantity) ==
  LET bought == callNativeTokenIn(s, NoConfig, tokenQuantity)
      after == buyToken(s, bought.originalQuantity, bought.calculatedQuantity)
      sold == callNativeTokenOut(after, NoConfig, bought.originalQuantity)
  IN  << bought.calculatedQuantity, sold.calculatedQuantity >>
\* the quantities that can be bought from sale s without ending the sale
Buyable(s) ==
  { q \in TokenQuantities :
      /\ q < s.sellingTokenQuantity
      /\ callNativeTokenIn(s, NoConfig, q).originalQuantity = q }

\* C13: from every sale state, buying Q with buyExactToken and selling the
\* same Q back with sellExactToken pays out at most the native paid in, and
\* after any sequence of buys and sells the sale's native quantity is at
\* least the amount its curve implies for the tokens sold.
C13_RoundTrip ==
  sale.saleStatus # "Finished"
    => /\ \A q \in Buyable(sale) : RoundTrip(sale, q)[2] <= RoundTrip(sale, q)[1]
       /\ sale.nativeTokenQuantity * NativeUnit >= ImpliedReserve(sale)

\* the sale the latest transaction found: tokens sold and multiplier
PreSold == fetchTokensSold(last.preSale)
PreMultiplier == last.preSale.adjustableSupplyMultiplier
\* the exact price of buyExactToken for the tokens it delivers, in GALA times
\* MulDen over the multiplier
ExactNativeIn ==
  (Curve(UnscaledPos(PreSold + last.tokens)) - Curve(UnscaledPos(PreSold))) * MulDen
\* the exact cost in GALA of t more tokens, and the exact proceeds of t
\* tokens sold back, on the sale's curve
CurveCost(t) ==
  Curve(ScaledPos(PreSold + t, PreMultiplier)) - Curve(ScaledPos(PreSold, PreMultiplier))
CurveProceeds(t) ==
  Curve(ScaledPos(PreSold, PreMultiplier)) - Curve(ScaledPos(PreSold - t, PreMultiplier))
\* the native amount a buyWithNative asks to spend, after the market-cap limit
NativeOffered ==
  IF last.quantity + last.preSale.nativeTokenQuantity > MARKET_CAP
    THEN MARKET_CAP - last.preSale.nativeTokenQuantity
    ELSE last.quantity
\* the exact reverse bonding curve fee of the latest sell, times 100 * maxSupply
ExactReverseFee ==
  LET cfg == last.preSale.reverseBondingCurveConfiguration
  IN  last.native * (cfg.minFeePortion * last.preSale.maxSupply
                       + PreSold * (cfg.maxFeePortion - cfg.minFeePortion))
\* the native amount the platform fee of the latest trade is taken from
TradedNative ==
  IF last.op = "sellWithNative"
    THEN Min(last.quantity, last.preSale.nativeTokenQuantity)
    ELSE last.native
\* the allocation transfers of a finalization pay at most the exact share
AllocationsRoundedDown ==
  LET nativeTokenQuantity == last.preSale.nativeTokenQuantity + last.native
  IN  \A i \in DOMAIN last.log :
        LET e == last.log[i]
        IN  (e.kind = "transfer" /\ e.from = VAULT /\ e.token = NATIVE)
              => /\ e.to = SALE_OWNER
                      => e.quantity * 100 <= nativeTokenQuantity * ownerAllocationPercentage
                 /\ e.to = FEE_ADDRESS
                      => e.quantity * 100 <= nativeTokenQuantity * platformFeePercentage

\* C14: every computed quantity is rounded in the vault's favour: the native
\* cost of buyExactToken, the native input of buyWithNative, the tokens
\* required by sellWithNative, the platform fee and the reverse bonding curve
\* fee are rounded up and never below the exact value (and less than one unit
\* above it); the tokens of buyWithNative, the native payout of
\* sellExactToken and the finalization allocations are rounded down and
\* never above the exact value.
C14_RoundingFavoursVault ==
  (last.op \in Trades /\ FoundOpenSale)
    => /\ (last.op = "buyExactToken" /\ UnscaledPos(PreSold + last.tokens) <= MaxPos)
            => LET den == EffectiveMultiplier(PreMultiplier) * NativeUnit
               IN  /\ last.native * den >= ExactNativeIn
                   /\ (last.native - 1) * den < ExactNativeIn
       /\ (last.op = "buyWithNative" /\ NativeOffered >= 0)
            => /\ last.native >= NativeOffered
               /\ last.native - decimals[NATIVE] < NativeOffered
               /\ last.tokens >= 0
               /\ CurveCost(last.tokens) <= last.native * NativeUnit
       /\ last.op = "sellExactToken"
            => last.native * NativeUnit <= CurveProceeds(last.tokens)
       /\ (last.op = "sellWithNative" /\ last.quantity <= last.preSale.nativeTokenQuantity
             /\ last.tokens # NaN /\ last.tokens <= PreSold)
            => CurveProceeds(last.tokens) >= last.native * NativeUnit
       /\ (feeConfig.present /\ TradedNative >= 0)
            => /\ last.fees * 100 >= TradedNative * feeConfig.feeAmount
               /\ (last.fees - 1) * 100 < TradedNative * feeConfig.feeAmount
       /\ (last.op \in Sells /\ last.rbcFee > 0)
            => /\ last.rbcFee * 100 * last.preSale.maxSupply >= ExactReverseFee
               /\ (last.rbcFee - 1) * 100 * last.preSale.maxSupply < ExactReverseFee
       /\ (BuySucceeded /\ last.isFinalized) => AllocationsRoundedDown

\* a buyWithNative paid a fee that was rounded up for tokens that were
\* rounded down
C14_Witness ==
  /\ last.op = "buyWithNative"
  /\ Succeeded
  /\ last.tokens > 0
  /\ CurveCost(last.tokens) < last.native * NativeUnit
  /\ feeConfig.present
  /\ last.fees * 100 > last.native * feeConfig.feeAmount

\* the selling-token quantity of the latest trade has no more decimals than
\* the selling token declares, and so has the native quantity a
\* sellWithNative asks for
QuantitiesFit ==
  /\ last.tokens % decimals[MEME] = 0
  /\ last.op = "sellWithNative" => last.quantity % decimals[NATIVE] = 0

\* C15 (as the code has it): the selling-token quantities the engine
\* computes (tokens of buyWithNative, tokens required by sellWithNative) and
\* the native input of buyWithNative are rounded to the declared decimals of
\* their token, so no trade fails with InvalidDecimal because of them; the
\* other native quantities (cost of buyExactToken, payout of sellExactToken,
\* fees, finalization allocations) are rounded to the engine's 8 decimals
\* whatever the native token declares, so a trade whose quantities fit fails
\* with InvalidDecimal only when the native token declares fewer decimals,
\* and then nothing changes.
C15_ComputedRounding ==
  (last.op \in Trades /\ FoundOpenSale /\ last.tokens # NaN)
    => /\ last.op \in {"buyWithNative", "sellWithNative"}
            => last.tokens % decimals[MEME] = 0
       /\ last.op = "buyWithNative" => last.native % decimals[NATIVE] = 0
       /\ (last.err = "InvalidDecimal" /\ QuantitiesFit)
            => /\ decimals[NATIVE] # 1
               /\ Unchanged

\* a trade whose quantities fit failed on a computed native quantity that
\* the native token's decimals do not allow
C15_Witness ==
  /\ last.op \in {"buyExactToken", "sellExactToken"}
  /\ QuantitiesFit
  /\ last.err = "InvalidDecimal"
  /\ decimals[NATIVE] = CoarseStep
  /\ last.native % CoarseStep # 0

\* C15 (as stated): every computed quantity is rounded to the declared
\* decimals of its token, so a trade never fails with InvalidDecimal because
\* of a computed quantity.
C15_AsStated ==
  (last.op \in Trades /\ QuantitiesFit /\ last.tokens # NaN)
    => last.err # "InvalidDecimal"

\* the latest request is a sellExactToken whose tokenQuantity has more
\* decimals than the selling token declares
OverPreciseSell ==
  /\ last.op = "sellExactToken"
  /\ FoundOpenSale
  /\ last.quantity % decimals[MEME] # 0
\* C16: a sellExactToken whose user-supplied tokenQuantity has more decimals
\* than the selling token declares fails with InvalidDecimal before any
\* transfer is attempted, the reverse-bonding-curve fee and platform fee
\* transfers included, and the sale record is unchanged.
C16_InvalidDecimalBeforeTransfers ==
  (OverPreciseSell /\ last.err = "InvalidDecimal")
    => /\ \A i \in 1..Len(last.log) : last.log[i].kind # "transfer"
       /\ Unchanged
\* the platform fee was transferred before the ledger refused the quantity
C16_Witness ==
  /\ OverPreciseSell
  /\ last.err = "InvalidDecimal"
  /\ Len(last.log) > 0
  /\ last.log[1] = Effect("transfer", TRADER, FEE_ADDRESS, NATIVE, last.fees)
  /\ last.fees > 0
  /\ sale = last.preSale


\* C17: a sale whose status is Finished has sellingTokenQuantity 0 and
\* nativeTokenQuantity 0: finalization sets the status and zeroes both
\* quantities in one write, and no later step changes the record.
C17_FinishedQuantitiesZero ==
  [][ /\ sale'.saleStatus = "Finished"
        => /\ sale'.sellingTokenQuantity = 0
           /\ sale'.nativeTokenQuantity = 0
      /\ sale.saleStatus = "Finished" => sale' = sale ]_vars
\* a buy was submitted against the Finished sale, whose quantities stay zero
C17_Witness ==
  /\ last.op \in Buys
  /\ last.preSale.saleStatus = "Finished"
  /\ sale.saleStatus = "Finished"
  /\ sale.sellingTokenQuantity = 0
  /\ sale.nativeTokenQuantity = 0


\* the latest transaction is a buy that triggers finalization on an open
\* sale while no fee configuration is stored
FinalizingBuyWithoutConfig ==
  /\ last.op \in Buys
  /\ FoundOpenSale
  /\ last.isFinalized
  /\ ~feeConfig.present
\* the buy stored the sale record, the last step before finalization
ReachedFinalization ==
  \E i \in 1..Len(last.log) : last.log[i].kind = "put"
\* the transaction of this step is the refused request, submitted again to
\* the same ledger right after the fee configuration was created
Resubmitted ==
  /\ refused.op \in Buys
  /\ last.op = "configureLaunchpadFeeAddress"
  /\ last.err = "none"
  /\ txCount' = txCount + 1
  /\ last'.op = refused.op
  /\ last'.quantity = refused.quantity
  /\ last'.expected = refused.expected
\* C18: without a platform fee configuration a buy that triggers
\* finalization fails with PreConditionFailed, the sale is not Finished and
\* none of the buy's transfers and quantity changes is persisted; once a fee
\* configuration is created the same buy triggers finalization again and is
\* not refused for want of a configuration.
C18_FinalizationNeedsFeeConfig ==
  /\ [](FinalizingBuyWithoutConfig
          => /\ last.err # "none"
             /\ ReachedFinalization => last.err = "PreConditionFailed"
             /\ Unchanged
             /\ sale.saleStatus # "Finished"
             /\ sale = last.preSale)
  /\ [][Resubmitted
          => /\ last'.isFinalized
             /\ last'.err # "PreConditionFailed"
             /\ (last'.err = "none" => sale'.saleStatus = "Finished")]_vars
\* the refused buy was submitted again after the configuration was created
\* and finalized the sale
C18_Witness ==
  /\ refused.op \in Buys
  /\ feeConfig.present
  /\ last.op = refused.op
  /\ last.quantity = refused.quantity
  /\ last.expected = refused.expected
  /\ last.preSale = refused.sale
  /\ last.preBal = refused.bal
  /\ last.err = "none"
  /\ sale.saleStatus = "Finished"


\* the position in the log of the buy's own write of the sale record
BuyPut ==
  CHOOSE i \in 1..Len(last.log) :
    /\ last.log[i].kind = "put"
    /\ \A j \in 1..(i - 1) : last.log[j].kind # "put"
\* the writes of finalization, in the order they were made
FinalizationLog == SubSeq(last.log, BuyPut + 1, Len(last.log))
\* the steps of finalization with a pool that has to be created or not
StepsOfFinalization(created) ==
  << [kind |-> "transfer", from |-> VAULT, to |-> SALE_OWNER, token |-> NATIVE],
     [kind |-> "transfer", from |-> VAULT, to |-> FEE_ADDRESS, token |-> NATIVE] >>
  \o (IF created THEN << [kind |-> "createPool", from |-> VAULT, to |-> POOL, token |-> MEME] >>
      ELSE << >>)
  \o << [kind |-> "transfer", from |-> VAULT, to |-> POOL, token |-> NATIVE],
        [kind |-> "transfer", from |-> VAULT, to |-> POOL, token |-> MEME],
        [kind |-> "burn", from |-> VAULT, to |-> VAULT, token |-> MEME],
        [kind |-> "burn", from |-> VAULT, to |-> VAULT, token |-> NATIVE],
        [kind |-> "put", from |-> VAULT, to |-> VAULT, token |-> MEME] >>
\* a write without its quantity
Step(e) == [kind |-> e.kind, from |-> e.from, to |-> e.to, token |-> e.token]
\* the latest transaction is a buy that finalized the sale
Finalized == BuySucceeded /\ last.isFinalized
\* C19: finalization makes its writes in one order: the owner allocation
\* transfer, the platform allocation transfer, the creation of the pool only
\* when the pair has none, the liquidity addition, the burn of the vault's
\* selling tokens, the burn of its native tokens and last the write of the
\* Finished record; after it the vault holds neither token.
C19_FinalizationOrder ==
  Finalized
    => /\ [ i \in 1..Len(FinalizationLog) |-> Step(FinalizationLog[i]) ]
            = StepsOfFinalization(~last.prePool)
       /\ sale.saleStatus = "Finished"
       /\ last.preSale.saleStatus # "Finished"
       /\ pool
       /\ bal[VAULT][MEME] = 0
       /\ bal[VAULT][NATIVE] = 0
\* a finalization that found the pool of the pair and burned selling tokens
\* left in the vault
C19_Witness ==
  /\ Finalized
  /\ last.prePool
  /\ \E i \in 1..Len(last.log) :
       /\ last.log[i].kind = "burn"
       /\ last.log[i].token = MEME
       /\ last.log[i].quantity > 0


\* the sale's nativeTokenQuantity when finalization started
NativeAtFinalization == last.preSale.nativeTokenQuantity + last.native
\* the percentages of the allocation: the stored ones, or 5, 1 and 94
OwnerShare == IF feeAllocation.present THEN feeAllocation.ownerAllocationPercentage ELSE 5
PlatformShare == IF feeAllocation.present THEN feeAllocation.platformFeePercentage ELSE 1
LiquidityShare ==
  IF feeAllocation.present THEN feeAllocation.liquidityAllocationPercentage ELSE 94
\* what the owner, the platform and the pool received
OwnerAmount == FinalizationLog[1].quantity
PlatformAmount == FinalizationLog[2].quantity
LiquidityAmount ==
  LET i == CHOOSE i \in 1..Len(FinalizationLog) :
             /\ FinalizationLog[i].to = POOL
             /\ FinalizationLog[i].token = NATIVE
  IN  FinalizationLog[i].quantity
\* amount is share percent of the native quantity, rounded down
RoundedDownShare(amount, share) ==
  /\ amount * 100 <= NativeAtFinalization * share
  /\ (amount + 1) * 100 > NativeAtFinalization * share
CostOfInventory == CurveCost(last.preSale.sellingTokenQuantity)
\* that cost as a native quantity: rounded up to 8 decimals and to the
\* decimals of the native token
RecomputedCost == RoundUpTo(RoundUp(CostOfInventory, NativeUnit), decimals[NATIVE])
\* the latest transaction is a successful buyWithNative whose native amount
\* buys more than the inventory that is left, so that the supply cap applies
SupplyCappedBuy ==
  /\ last.op = "buyWithNative"
  /\ Succeeded
  /\ FoundOpenSale
  /\ last.preSale.sellingTokenQuantity > 0
  /\ last.preSale.sellingTokenQuantity % decimals[MEME] = 0
  /\ RoundUpTo(NativeOffered, decimals[NATIVE]) * NativeUnit > CostOfInventory
\* C21: a buyWithNative capped by the supply limit delivers exactly the
\* remaining inventory and charges, records in the sale and reports the cost
\* of exactly that quantity, not the amount the caller asked to spend.
C21_CappedBuyRecomputed ==
  SupplyCappedBuy
    => /\ last.tokens = last.preSale.sellingTokenQuantity
       /\ last.native = RecomputedCost
       /\ bal[TRADER][NATIVE] = last.preBal[TRADER][NATIVE] - RecomputedCost - last.fees
\* a capped buyWithNative that delivered the remaining inventory and charged
\* the amount offered, above the cost of that inventory
C21_Witness ==
  /\ SupplyCappedBuy
  /\ last.tokens = last.preSale.sellingTokenQuantity
  /\ last.native = RoundUpTo(NativeOffered, decimals[NATIVE])
  /\ last.native > RecomputedCost
  /\ bal[TRADER][NATIVE] = last.preBal[TRADER][NATIVE] - last.native - last.fees


\* the transfers of native tokens the latest transaction made from one
\* owner to another, as a sequence of quantities
NativeTransfers(from, to) ==
  LET legs == SelectSeq(last.log, LAMBDA e : /\ e.kind = "transfer" /\ e.token = NATIVE
                                             /\ e.from = from /\ e.to = to)
  IN  [ i \in 1..Len(legs) |-> legs[i].quantity ]
\* what the trader paid to the fee address: the reverse bonding curve fee of
\* a sell, when there is one, and the platform fee
FeeLegs ==
  (IF last.op \in Sells /\ last.rbcFee > 0 /\ feeConfig.present
     THEN << last.rbcFee >> ELSE << >>)
  \o (IF feeConfig.present /\ (last.fees > 0 \/ last.op \in Sells)
        THEN << last.fees >> ELSE << >>)
\* the trade of the latest transaction went through: it stored the sale
\* record after its transfers
TradeWritten == last.op \in Trades /\ ReachedFinalization
\* C22 (as the code has it): the platform fee of a trade is the traded native
\* amount times feeAmount rounded up, 0 without a fee configuration; the
\* trader pays it to the fee address besides the whole native amount that
\* moves between trader and vault; without a fee configuration no fee
\* transfer is made and the trade goes through, though a buy that triggers
\* finalization is then refused by finalization.
C22_PlatformFee ==
  TradeWritten
    => /\ last.fees = IF feeConfig.present
                        THEN RoundUp(last.native * feeConfig.feeAmount, 100) ELSE 0
       /\ NativeTransfers(TRADER, FEE_ADDRESS) = FeeLegs
       /\ last.op \in Buys => /\ NativeTransfers(TRADER, VAULT) = << last.native >>
                              /\ NativeTransfers(VAULT, TRADER) = << >>
       /\ last.op \in Sells => /\ NativeTransfers(VAULT, TRADER) = << last.native >>
                               /\ NativeTransfers(TRADER, VAULT) = << >>
       /\ ~feeConfig.present
            => /\ NativeTransfers(TRADER, FEE_ADDRESS) = << >>
               /\ Succeeded \/ (last.op \in Buys /\ last.isFinalized
                                  /\ last.err = "PreConditionFailed")
       /\ (Succeeded /\ last.op \in Buys)
            => bal[TRADER][NATIVE] = last.preBal[TRADER][NATIVE] - last.native - last.fees
\* a buy paid the fee on top of the native amount that went to the vault
C22_Witness ==
  /\ BuySucceeded
  /\ ~last.isFinalized
  /\ last.fees > 0
  /\ last.fees * 100 > last.native * feeConfig.feeAmount
  /\ bal[VAULT][NATIVE] = last.preBal[VAULT][NATIVE] + last.native
  /\ bal[FEE_ADDRESS][NATIVE] = last.preBal[FEE_ADDRESS][NATIVE] + last.fees
\* C22 as stated: without a fee configuration every trade that goes through
\* succeeds
C22_AsStated ==
  (TradeWritten /\ ~feeConfig.present) => Succeeded


\* reverse bonding curve configurations the validators accept: none, and
\* portions with 0 <= minFeePortion <= maxFeePortion <= 0.5
ReverseConfigurations ==
  { NoRbc } \cup { [present |-> TRUE, minFeePortion |-> lo, maxFeePortion |-> hi] :
                     lo \in {0, 10}, hi \in {0, 50} }
\* proceeds of a sell
Proceeds == {1, 7, MARKET_CAP}
\* the stored sale with another configuration and inventory
SaleWith(cfg, left) ==
  [sale EXCEPT !.reverseBondingCurveConfiguration = cfg, !.sellingTokenQuantity = left]
\* C23: calculateReverseBondingCurveFee is 0 without a configuration and
\* with maxFeePortion 0; otherwise it is the proceeds times (minFeePortion +
\* circulating proportion times (maxFeePortion - minFeePortion)) rounded up,
\* between the proceeds times minFeePortion and times maxFeePortion (rounded
\* up), and not lower when more tokens are sold.  A failed transaction
\* leaves the sale of the state before it, so the function is evaluated on
\* the sales that the initial state and the successful transactions leave.
C23_ReverseFee ==
  /\ sale.sellingTokenQuantity \in 0..sale.maxSupply
  /\ Succeeded => \A cfg \in ReverseConfigurations, proceeds \in Proceeds :
       LET left == sale.sellingTokenQuantity
           fee == calculateReverseBondingCurveFee(SaleWith(cfg, left), proceeds)
           exact == proceeds * (cfg.minFeePortion * sale.maxSupply
                      + (sale.maxSupply - left) * (cfg.maxFeePortion - cfg.minFeePortion))
       IN  cfg.minFeePortion <= cfg.maxFeePortion
             => /\ (~cfg.present \/ cfg.maxFeePortion = 0) => fee = 0
                /\ (cfg.present /\ cfg.maxFeePortion # 0)
                     => /\ fee * 100 * sale.maxSupply >= exact
                        /\ (fee - 1) * 100 * sale.maxSupply < exact
                        /\ fee >= RoundUp(proceeds * cfg.minFeePortion, 100)
                        /\ fee <= RoundUp(proceeds * cfg.maxFeePortion, 100)
                /\ left > 0
                     => calculateReverseBondingCurveFee(SaleWith(cfg, left - 1), proceeds)
                          >= fee
  /\ (last.op \in Sells /\ FoundOpenSale /\ last.native >= 0)
       => LET cfg == last.preSale.reverseBondingCurveConfiguration
          IN  /\ last.rbcFee = calculateReverseBondingCurveFee(last.preSale, last.native)
              /\ cfg.present
                   => /\ last.rbcFee >= RoundUp(last.native * cfg.minFeePortion, 100)
                      /\ last.rbcFee <= RoundUp(last.native * cfg.maxFeePortion, 100)
\* a sell paid a fee above the proceeds times minFeePortion (rounded up)
\* and not above the proceeds times maxFeePortion (rounded up)
C23_Witness ==
  /\ SellSucceeded
  /\ feeConfig.present
  /\ last.preSale.reverseBondingCurveConfiguration.present
  /\ last.rbcFee
       > RoundUp(last.native * last.preSale.reverseBondingCurveConfiguration.minFeePortion, 100)
  /\ last.rbcFee
       <= RoundUp(last.native * last.preSale.reverseBondingCurveConfiguration.maxFeePortion, 100)
  /\ bal[TRADER][NATIVE] = last.preBal[TRADER][NATIVE] + last.native - last.rbcFee - last.fees


\* C24: a trade against a sale whose saleStartTime is later than the
\* transaction time is rejected as a validation failure and changes nothing;
\* the start is read from the stored start time, so once that time has passed
\* the trade is no longer refused for it and no trade stores a transition to
\* Ongoing; a sale created without a start time is Ongoing from the start.
C24_UnstartedSaleRejected ==
  /\ (last.op \in Trades /\ last.preSale.saleStartTime > last.time)
       => RejectedEarly("ValidationFailed")
  /\ (last.op \in Trades /\ last.preSale.saleStartTime <= last.time
        /\ last.preSale.saleStatus # "Finished")
       => last.msg # "sale not started"
  /\ sale.saleStatus # "Finished"
       => sale.saleStatus = IF sale.saleStartTime > 0 THEN "Upcoming" ELSE "Ongoing"
\* a buy went through on a sale created with a start time, after that time,
\* and the stored status is still the one given at creation
C24_Witness ==
  /\ BuySucceeded
  /\ last.tokens > 0
  /\ last.preSale.saleStartTime > 0
  /\ last.time >= last.preSale.saleStartTime
  /\ last.preSale.saleStatus = "Upcoming"
  /\ sale.saleStatus = "Upcoming"

\* ------------------------------------------------------------------ creation
\* the ledger before the sale exists
NoSale ==
  [ saleStatus |-> "Absent", saleStartTime |-> 0, adjustableSupplyMultiplier |-> 0,
    basePrice |-> 0, maxSupply |-> 0, sellingTokenQuantity |-> 0,
    nativeTokenQuantity |-> 0, reverseBondingCurveConfiguration |-> NoRbc ]

\* adjustableSupplyMultiplier values that pass @IsOptional @IsNumber @Min(0):
\* left out, 0, 0.5, 1, 1.5, 2, 3
AcceptedMultipliers == {0, ZeroMultiplier, 1, 2, 3, 4, 6}
StartTimes == 0..(MaxTime + 2)

InitCreate ==
  /\ sale = NoSale
  /\ bal = [ o \in Owners |-> [ t \in Tokens |-> 0 ] ]
  /\ feeConfig = NoConfig
  /\ feeAllocation = NoAllocation
  /\ feeReceipts = 0
  /\ decimals = FineDecimals
  /\ pool = FALSE
  /\ now = 0
  /\ txCount = 0
  /\ last = Outcome(NoRequest, StartTx, 0, 0, 0, 0, FALSE, 0)
  /\ refused = Refusal(Outcome(NoRequest, StartTx, 0, 0, 0, 0, FALSE, 0))
  /\ NoSideState

\* the constructor of LaunchpadSale applied to its inputs
CreateLaunchpadSale ==
  /\ sale = NoSale
  /\ \E rbc \in ReverseConfigurations, saleStartTime \in StartTimes, mh \in AcceptedMultipliers :
       sale' = NewLaunchpadSale(rbc, saleStartTime, mh)
  /\ txCount' = txCount + 1
  /\ UNCHANGED << bal, feeConfig, feeAllocation, feeReceipts, decimals, pool, now, last, refused, tradeData, batchSubmitAuthorities >>

NextCreate == CreateLaunchpadSale

SpecCreate == InitCreate /\ [][NextCreate]_vars

\* the multiplier the constructor was given, as a number of halves
CreatedMultiplier ==
  IF sale.adjustableSupplyMultiplier = 0 THEN MulDen
  ELSE IF sale.adjustableSupplyMultiplier = ZeroMultiplier THEN 0
  ELSE sale.adjustableSupplyMultiplier
Created == sale # NoSale

\* C25 as stated: for every accepted multiplier m (1 when left out) the new
\* sale has maxSupply = 1e7 * m, sellingTokenQuantity = maxSupply,
\* nativeTokenQuantity = 0, no tokens sold, and basePrice * m = BASE_PRICE.
C25_AsStated ==
  Created =>
    /\ sale.maxSupply * MulDen = BASE_SUPPLY * CreatedMultiplier
    /\ sale.sellingTokenQuantity = sale.maxSupply
    /\ sale.nativeTokenQuantity = 0
    /\ fetchTokensSold(sale) = 0
    /\ sale.basePrice # Infinity
    /\ sale.basePrice * CreatedMultiplier = BASE_PRICE * MulDen

\* C25: a new sale has maxSupply = 1e7 * m, sellingTokenQuantity = maxSupply,
\* nativeTokenQuantity = 0 and no tokens sold for every accepted multiplier
\* m (1 when left out); basePrice * m = BASE_PRICE when m is positive, and
\* for the accepted multiplier 0 the supply is 0 and basePrice is
\* BASE_PRICE divided by zero.
C25_NewSale ==
  Created =>
    /\ sale.maxSupply * MulDen = BASE_SUPPLY * CreatedMultiplier
    /\ sale.sellingTokenQuantity = sale.maxSupply
    /\ sale.nativeTokenQuantity = 0
    /\ fetchTokensSold(sale) = 0
    /\ CreatedMultiplier > 0
         => sale.basePrice # Infinity /\ sale.basePrice * CreatedMultiplier = BASE_PRICE * MulDen
    /\ CreatedMultiplier = 0 => sale.maxSupply = 0 /\ sale.basePrice = Infinity
\* a sale created with a multiplier other than 1 and the scaled quantities
C25_Witness ==
  /\ Created
  /\ sale.adjustableSupplyMultiplier = 2 * MulDen
  /\ sale.maxSupply = 2 * BASE_SUPPLY
  /\ sale.sellingTokenQuantity = 2 * BASE_SUPPLY
  /\ 2 * sale.basePrice = BASE_PRICE

\* C26: trade economics do not depend on the multiplier: a buyExactToken of
\* Q * m tokens on a sale with multiplier m, from a baseline of s * m tokens
\* sold, is charged the native amount that Q tokens from baseline s cost on
\* a sale with multiplier 1.
C26_MultiplierInvariance ==
  LET m == EffectiveMultiplier(PreMultiplier)
  IN  ( /\ last.op = "buyExactToken" /\ Succeeded /\ FoundOpenSale
        /\ last.tokens > 0
        /\ (last.tokens * MulDen) % m = 0
        /\ (PreSold * MulDen) % m = 0 )
        => last.native = NativeTokenInPrice((PreSold * MulDen) \div m,
                                            (last.tokens * MulDen) \div m, MulDen)
\* a buyExactToken went through on a sale whose multiplier is not 1
C26_Witness ==
  /\ last.op = "buyExactToken" /\ Succeeded /\ FoundOpenSale
  /\ last.tokens > 0
  /\ EffectiveMultiplier(PreMultiplier) # MulDen
  /\ (last.tokens * MulDen) % EffectiveMultiplier(PreMultiplier) = 0
  /\ (PreSold * MulDen) % EffectiveMultiplier(PreMultiplier) = 0

\* the tokens callMemeTokenOut returns for n native at sale s, and the
\* native callNativeTokenIn asks for those tokens at the same sale
InverseRoundTrip(s, n) ==
  LET out == callMemeTokenOut(s, NoConfig, decimals, n, FALSE)
      back == callNativeTokenIn(s, NoConfig, out.calculatedQuantity)
  IN  << out.calculatedQuantity, back.calculatedQuantity >>
\* native amounts that the native token class can represent
NativeAmounts == { n \in NativeQuantities : n % decimals[NATIVE] = 0 }
\* n is spent in full: neither the market cap nor the supply cap cuts it
Uncapped(s, n) ==
  /\ n + s.nativeTokenQuantity <= MARKET_CAP
  /\ InverseRoundTrip(s, n)[1] + decimals[MEME] <= s.sellingTokenQuantity

\* C27: at every sale state and for every native amount n, the tokens that
\* callMemeTokenOut returns for n cost, by callNativeTokenIn at the same
\* state, at most n; and when no cap cuts n the cost is within the last
\* step of n: one more step of tokens would cost more than n.
C27_InverseConsistency ==
  sale.saleStatus # "Finished"
    => \A n \in NativeAmounts :
         /\ InverseRoundTrip(sale, n)[2] <= n
         /\ Uncapped(sale, n)
              => callNativeTokenIn(sale, NoConfig,
                                   InverseRoundTrip(sale, n)[1] + decimals[MEME]).calculatedQuantity > n
\* a sale with a multiplier other than 1 and tokens sold, for which some
\* native amount buys tokens
C27_Witness ==
  /\ sale.saleStatus = "Ongoing"
  /\ EffectiveMultiplier(sale.adjustableSupplyMultiplier) # MulDen
  /\ fetchTokensSold(sale) > 0
  /\ \E n \in NativeAmounts : InverseRoundTrip(sale, n)[1] > 0

\* the stored sale with s tokens sold
SaleAt(s) == [sale EXCEPT !.sellingTokenQuantity = sale.maxSupply - s]
\* the native cost callNativeTokenIn returns for q tokens at baseline s
CostAt(s, q) == callNativeTokenIn(SaleAt(s), NoConfig, q).calculatedQuantity
\* the same cost before rounding, in GALA times MulDen over the multiplier
ExactCostAt(s, q) == (Curve(UnscaledPos(s + q)) - Curve(UnscaledPos(s))) * MulDen
\* baselines above the tokens sold at which q still fits under the supply
\* cap, the sale's and the one callNativeTokenIn applies
LaterBaselines(q) ==
  { s \in (fetchTokensSold(sale) + 1)..sale.maxSupply :
      s + q <= sale.maxSupply /\ s + q <= BASE_SUPPLY }

\* C28 as stated: for baselines s1 < s2 and a quantity Q that fits under the
\* supply cap at both, callNativeTokenIn returns strictly less native for Q
\* at s1 than at s2.
C28_AsStated ==
  \A q \in TokenQuantities : \A s2 \in LaterBaselines(q) :
    CostAt(fetchTokensSold(sale), q) < CostAt(s2, q)

\* C28: for baselines s1 < s2 and a quantity Q that fits under the supply
\* cap at both, the price before rounding is strictly lower at s1, the
\* native callNativeTokenIn returns for Q at s1 is at most what it returns at
\* s2, and it is strictly less once the prices before rounding differ by a
\* unit of the last native decimal or more.  The baselines s1 are those the
\* initial state and the successful transactions leave.
C28_PriceRises ==
  Succeeded => \A q \in TokenQuantities :
    LET s1 == fetchTokensSold(sale)
        c1 == CostAt(s1, q)
        e1 == ExactCostAt(s1, q)
    IN  \A s2 \in LaterBaselines(q) :
          LET c2 == CostAt(s2, q)
              e2 == ExactCostAt(s2, q)
          IN  /\ e1 < e2
              /\ c1 <= c2
              /\ e2 - e1 >= EffectiveMultiplier(sale.adjustableSupplyMultiplier) * NativeUnit
                   => c1 < c2
\* tokens have been sold and a quantity costs more at a later baseline
C28_Witness ==
  /\ Succeeded
  /\ fetchTokensSold(sale) > 0
  /\ \E q \in TokenQuantities : \E s2 \in LaterBaselines(q) :
       CostAt(fetchTokensSold(sale), q) < CostAt(s2, q)

\* native amounts of pre-mint requests: small, mid-curve, above MARKET_CAP
PreMintAmounts == {1, 9, 20}
\* the answer of callMemeTokenOut to a pre-mint request for n native
PreMint(n) == callMemeTokenOut(sale, feeConfig, decimals, n, TRUE)
\* the tokens n native buy from a sale with nothing sold, the curve
\* unscaled, limited by the 1e7 supply only: the largest quantity whose
\* exact cost is at most n
PreMintTokens(n) ==
  CHOOSE t \in 0..BASE_SUPPLY :
    /\ Curve(UnscaledPos(t)) <= n * NativeUnit
    /\ t < BASE_SUPPLY => Curve(UnscaledPos(t + 1)) > n * NativeUnit

AuthorityLists == {NoAuthorities, {}, {TRADER}}
ConfigureRequests ==
  { r \in [ callingUser : Callers, newPlatformFeeAddress : NewAddresses, newFeeAmount : NewFeeAmounts,
            newAuthorities : AuthorityLists ] :
      r.newPlatformFeeAddress # NoAddress \/ r.newFeeAmount # NoBound \/ r.newAuthorities = {TRADER} }
Configured(r) ==
  configureLaunchpadFeeAddressTx(StartTx, r.callingUser, r.newPlatformFeeAddress, r.newFeeAmount,
                                 r.newAuthorities)

\* C30: a caller of configureLaunchpadFeeAddress is let through exactly if
\* it belongs to the curator organisation or is one of the authorities of
\* the stored configuration; every other caller gets Unauthorized, and a
\* refused call leaves the stored configuration as it was.
C30_ConfigureAuthorization ==
  \A r \in ConfigureRequests :
    /\ Configured(r)[1].err # "Unauthorized"
         <=> (r.callingUser = CURATOR \/ r.callingUser \in feeConfig.authorities)
    /\ Configured(r)[1].err # "none" => Configured(r)[2] = feeConfig
\* a call was refused as unauthorized while a configuration is stored whose
\* authorities do not include the curator organisation's user
C30_Witness ==
  /\ last.op = "configureLaunchpadFeeAddress"
  /\ last.err = "Unauthorized"
  /\ feeConfig.present
  /\ CURATOR \notin feeConfig.authorities

\* ------------------------------------------------------------------ fee configuration
\* the calls on the fee configuration alone, with every field of the request
\* and the configuration found kept in the outcome
NEW_FEE_ADDRESS == "newFeeAddress"
ConfigAddresses == {NoAddress, FEE_ADDRESS, NEW_FEE_ADDRESS}
ConfigAuthorities == {NoAuthorities, {}, {TRADER}, {CURATOR, TRADER}}
NoDto ==
  [ callingUser |-> TRADER, newPlatformFeeAddress |-> NoAddress, newFeeAmount |-> NoBound,
    newAuthorities |-> NoAuthorities ]
ConfigOutcome(op, dto, st, returned) ==
  [ op |-> op, err |-> st.err, msg |-> st.msg,
    callingUser |-> dto.callingUser,
    newPlatformFeeAddress |-> dto.newPlatformFeeAddress,
    newFeeAmount |-> dto.newFeeAmount,
    newAuthorities |-> dto.newAuthorities,
    preConfig |-> feeConfig,
    returned |-> returned ]

InitConfig ==
  /\ sale = NewLaunchpadSale(NoRbc, 0, 0)
  /\ bal = [ o \in Owners |-> [ t \in Tokens |-> 0 ] ]
  /\ feeConfig \in FeeConfigs
  /\ feeAllocation = NoAllocation
  /\ feeReceipts = 0
  /\ decimals = FineDecimals
  /\ pool = FALSE
  /\ now = 0
  /\ txCount = 0
  /\ last = ConfigOutcome("none", NoDto, StartTx, NoBound)
  /\ refused = Refusal(Outcome(NoRequest, StartTx, 0, 0, 0, 0, FALSE, 0))
  /\ NoSideState

\* configureLaunchpadFeeAddress returns the configuration it stored
ConfigureLaunchpadFeeAddress ==
  \E callingUser \in Callers, newPlatformFeeAddress \in ConfigAddresses, newFeeAmount \in NewFeeAmounts, newAuthorities \in ConfigAuthorities :
    LET dto == [ callingUser |-> callingUser, newPlatformFeeAddress |-> newPlatformFeeAddress,
                 newFeeAmount |-> newFeeAmount, newAuthorities |-> newAuthorities ]
        tx == configureLaunchpadFeeAddressTx(StartTx, callingUser, newPlatformFeeAddress, newFeeAmount, newAuthorities)
    IN  /\ txCount < MaxTx
        /\ txCount' = txCount + 1
        /\ feeConfig' = tx[2]
        /\ last' = ConfigOutcome("configureLaunchpadFeeAddress", dto, tx[1],
                                 IF tx[1].err = "none" THEN tx[2].feeAmount ELSE NoBound)
        /\ UNCHANGED << sale, bal, feeAllocation, feeReceipts, decimals, pool, now, refused, tradeData, batchSubmitAuthorities >>

\* fetchLaunchpadFeeAmount answering 0 where no configuration is stored
fetchLaunchpadFeeAmountOrZero(st) ==
  << st, feeConfig.feeAmount >>

\* fetchLaunchpadFeeAmount: NotFound without a configuration, else its
\* feeAmount
fetchLaunchpadFeeAmount(st) ==
  IF ~feeConfig.present
    THEN << Throw(st, "NotFound", "Platform fee configuration has yet to be defined."), NoBound >>
    ELSE << st, feeConfig.feeAmount >>

FetchLaunchpadFeeAmount ==
  LET res == fetchLaunchpadFeeAmount(StartTx)
  IN  /\ txCount < MaxTx
      /\ txCount' = txCount + 1
      /\ last' = ConfigOutcome("fetchLaunchpadFeeAmount", NoDto, res[1], res[2])
      /\ UNCHANGED << sale, bal, feeConfig, feeAllocation, feeReceipts, decimals, pool, now,
                      refused, tradeData, batchSubmitAuthorities >>

NextConfig ==
  \/ ConfigureLaunchpadFeeAddress
  \/ FetchLaunchpadFeeAmount

SpecConfig == InitConfig /\ [][NextConfig]_vars

\* the call before this state was a configureLaunchpadFeeAddress that
\* returned, on a stored configuration or without one
Configure == last.op = "configureLaunchpadFeeAddress"
Updated == Configure /\ last.err = "none" /\ last.preConfig.present
FirstSetup == Configure /\ last.err = "none" /\ ~last.preConfig.present

\* C31: an update of the fee configuration keeps the stored value of every
\* field the request leaves out and stores the value of every field it
\* supplies: an address-only update keeps feeAmount and authorities, an
\* amount-only update, to 0 as well, keeps feeAddress and authorities.
C31_UpdateKeepsOmittedFields ==
  Updated =>
    /\ feeConfig.feeAddress = IF last.newPlatformFeeAddress = NoAddress
                                THEN last.preConfig.feeAddress
                                ELSE last.newPlatformFeeAddress
    /\ feeConfig.feeAmount = IF last.newFeeAmount = NoBound
                               THEN last.preConfig.feeAmount
                               ELSE last.newFeeAmount
    /\ feeConfig.authorities = IF last.newAuthorities = NoAuthorities
                                 THEN last.preConfig.authorities
                                 ELSE last.newAuthorities
\* an update to a fee amount of 0 alone, on a configuration with another
\* amount, which kept address and authorities
C31_Witness ==
  /\ Updated
  /\ last.newFeeAmount = 0
  /\ last.newPlatformFeeAddress = NoAddress
  /\ last.newAuthorities = NoAuthorities
  /\ last.preConfig.feeAmount = 25
  /\ feeConfig.feeAmount = 0
  /\ feeConfig.feeAddress = last.preConfig.feeAddress
  /\ feeConfig.authorities = last.preConfig.authorities

\* the feeAmount a successful configureLaunchpadFeeAddress stored last, from
\* the configuration the state before it held
WrittenFeeAmount ==
  IF Configure /\ last.err = "none"
    THEN IF last.newFeeAmount # NoBound THEN last.newFeeAmount ELSE last.preConfig.feeAmount
    ELSE last.preConfig.feeAmount

\* C32: fetchLaunchpadFeeAmount returns the feeAmount of the stored
\* configuration, which is the one the last successful
\* configureLaunchpadFeeAddress wrote, fails with NotFound when no
\* configuration is stored, and changes no state.
C32_FetchFeeAmount ==
  /\ [](feeConfig.present => feeConfig.feeAmount = WrittenFeeAmount)
  /\ [](last.op = "fetchLaunchpadFeeAmount"
          => /\ feeConfig = last.preConfig
             /\ feeConfig.present => last.err = "none" /\ last.returned = feeConfig.feeAmount
             /\ ~feeConfig.present => last.err = "NotFound" /\ last.returned = NoBound)
  /\ [][last'.op = "fetchLaunchpadFeeAmount"
          => UNCHANGED << sale, bal, feeConfig, feeAllocation, feeReceipts, decimals, pool, tradeData, batchSubmitAuthorities >>]_vars
\* the amount was fetched after a configuration call changed it
C32_Witness ==
  /\ last.op = "fetchLaunchpadFeeAmount"
  /\ last.err = "none"
  /\ last.returned = 0
  /\ txCount > 1

\* a request that carries none of the three fields, and one that carries
\* what a first configuration needs
NothingSupplied ==
  /\ last.newPlatformFeeAddress = NoAddress
  /\ last.newFeeAmount = NoBound
  /\ last.newAuthorities \in {NoAuthorities, {}}
SetupSupplied ==
  /\ last.newPlatformFeeAddress # NoAddress
  /\ last.newFeeAmount # NoBound

C39_FeeConfigValid ==
  /\ [](feeConfig.present
          => /\ feeConfig.feeAmount \in 0..100
             /\ feeConfig.feeAddress # NoAddress
             /\ feeConfig.authorities # {}
             /\ \E u \in feeConfig.authorities :
                  configureLaunchpadFeeAddressTx(StartTx, u, NoAddress, 25, NoAuthorities)[1].err
                    = "none")
  /\ [][last'.op \in Trades => feeConfig' = feeConfig]_vars
\* a trade went through after a call had created the configuration
C39_Witness ==
  /\ last.op \in Trades
  /\ Succeeded
  /\ feeConfig.present
  /\ feeConfig.authorities = {CURATOR}
  /\ last.fees > 0


\* ------------------------------------------------------------------ batch-submit authorities
\* LaunchpadBatchSubmitAuthorities keeps its authorities as an array, in the
\* order they were added

BatchUsers == {"user1", "user2", "user3"}

\* the lists the constructor is given
InitialAuthorities == { << >>, << "user1" >>, << "user1", "user2" >> }

\* the members of an array
Members(list) == { list[i] : i \in 1..Len(list) }

\* addAuthority pushing without looking for the user
addAuthorityAlways(authorities, user) ==
  Append(authorities, user)

\* addAuthority: push the user unless the array includes it
addAuthority(authorities, user) ==
  IF user \in Members(authorities) THEN authorities ELSE Append(authorities, user)

\* removeAuthority: the array without the user
removeAuthority(authorities, user) ==
  SelectSeq(authorities, LAMBDA a : a # user)

\* isAuthorized: the array includes the user
isAuthorized(authorities, user) ==
  user \in Members(authorities)

\* getAuthorities handing out the stored array itself
getAuthoritiesShared(authorities) ==
  [ array |-> authorities, shared |-> TRUE ]

\* getAuthorities: a copy of the array
getAuthorities(authorities) ==
  [ array |-> authorities, shared |-> FALSE ]

\* what a call on the authorities object did: the list before, the answer,
\* and the users added (or given at construction) and not removed since
BatchOutcome(op, user, pre, returned, held) ==
  [ op |-> op, err |-> "none", user |-> user, preAuthorities |-> pre, returned |-> returned,
    held |-> held ]

InitBatch ==
  /\ sale = NewLaunchpadSale(NoRbc, 0, 0)
  /\ bal = [ o \in Owners |-> [ t \in Tokens |-> 0 ] ]
  /\ feeConfig = NoConfig
  /\ feeAllocation = NoAllocation
  /\ feeReceipts = 0
  /\ decimals = FineDecimals
  /\ pool = FALSE
  /\ now = 0
  /\ txCount = 0
  /\ refused = Refusal(Outcome(NoRequest, StartTx, 0, 0, 0, 0, FALSE, 0))
  /\ tradeData = [ v \in TradeVaults |-> NoTradeData ]
  /\ batchSubmitAuthorities \in InitialAuthorities
  /\ last = BatchOutcome("none", "none", batchSubmitAuthorities, << >>, Members(batchSubmitAuthorities))

AddAuthority ==
  \E user \in BatchUsers :
    /\ txCount < MaxTx
    /\ txCount' = txCount + 1
    /\ batchSubmitAuthorities' = addAuthority(batchSubmitAuthorities, user)
    /\ last' = BatchOutcome("addAuthority", user, batchSubmitAuthorities, << >>, last.held \cup {user})
    /\ UNCHANGED << sale, bal, feeConfig, feeAllocation, feeReceipts, decimals, pool, now, refused, tradeData >>

RemoveAuthority ==
  \E user \in BatchUsers :
    /\ txCount < MaxTx
    /\ txCount' = txCount + 1
    /\ batchSubmitAuthorities' = removeAuthority(batchSubmitAuthorities, user)
    /\ last' = BatchOutcome("removeAuthority", user, batchSubmitAuthorities, << >>, last.held \ {user})
    /\ UNCHANGED << sale, bal, feeConfig, feeAllocation, feeReceipts, decimals, pool, now, refused, tradeData >>

IsAuthorized ==
  \E user \in BatchUsers :
    /\ txCount < MaxTx
    /\ txCount' = txCount + 1
    /\ last' = BatchOutcome("isAuthorized", user, batchSubmitAuthorities,
                            isAuthorized(batchSubmitAuthorities, user), last.held)
    /\ UNCHANGED << sale, bal, feeConfig, feeAllocation, feeReceipts, decimals, pool, now, refused, tradeData, batchSubmitAuthorities >>

\* the caller of getAuthorities pushes a user onto the array it was given
GetAuthorities ==
  \E user \in BatchUsers :
    LET got == getAuthorities(batchSubmitAuthorities)
    IN  /\ txCount < MaxTx
        /\ txCount' = txCount + 1
        /\ batchSubmitAuthorities' = IF got.shared THEN Append(got.array, user) ELSE batchSubmitAuthorities
        /\ last' = BatchOutcome("getAuthorities", user, batchSubmitAuthorities, Append(got.array, user), last.held)
        /\ UNCHANGED << sale, bal, feeConfig, feeAllocation, feeReceipts, decimals, pool, now, refused, tradeData >>

NextBatch ==
  \/ AddAuthority
  \/ RemoveAuthority
  \/ IsAuthorized
  \/ GetAuthorities

SpecBatch == InitBatch /\ [][NextBatch]_vars

NoDuplicates(list) == \A i, j \in 1..Len(list) : list[i] = list[j] => i = j

\* C33: the batch-submit authorities list never holds a user twice, adding a
\* user already in it leaves it unchanged, isAuthorized(u) is true exactly
\* for the users added and not removed since, and pushing onto the array
\* that getAuthorities returned leaves the stored list as it was.
C33_BatchAuthorities ==
  /\ NoDuplicates(batchSubmitAuthorities)
  /\ \A u \in BatchUsers : isAuthorized(batchSubmitAuthorities, u) <=> u \in last.held
  /\ last.op = "isAuthorized" => (last.returned <=> last.user \in last.held)
  /\ (last.op = "addAuthority" /\ last.user \in Members(last.preAuthorities))
       => batchSubmitAuthorities = last.preAuthorities
  /\ last.op = "getAuthorities"
       => /\ batchSubmitAuthorities = last.preAuthorities
          /\ last.returned # batchSubmitAuthorities

\* a user already in a list of two was added again
C33_Witness ==
  /\ last.op = "addAuthority"
  /\ last.user \in Members(last.preAuthorities)
  /\ Len(last.preAuthorities) = 2
  /\ txCount >= 2


\* ------------------------------------------------------------------ trade data
\* the volumes passed to writeTradeData
Volumes == {-1, 0, 1, 2}

\* what getObjectByKey answers apart from the stored record: nothing special,
\* or an error that is not NOT_FOUND
Lookups == {"none", "ChainError"}

\* the validators of LaunchpadTradeData, applied by putChainObject
ValidTradeData(data) == data.galaVolumeTraded >= 0

\* fetchOrCreateLaunchpadTradeData answering a stored record with its volume reset
fetchOrCreateLaunchpadTradeDataLate(stored, lookup, txUnixTime) ==
  IF lookup # "none" THEN [ err |-> lookup, data |-> stored ]
  ELSE IF stored.present THEN [ err |-> "none", data |-> [stored EXCEPT !.galaVolumeTraded = 0] ]
  ELSE [ err |-> "none",
         data |-> [ present |-> TRUE, galaVolumeTraded |-> 0, createdAt |-> txUnixTime,
                    lastUpdated |-> txUnixTime ] ]

\* fetchOrCreateLaunchpadTradeData: the stored record; a new record of volume
\* 0 created and last updated now when the lookup says NOT_FOUND; any other
\* error of the lookup is thrown
fetchOrCreateLaunchpadTradeData(stored, lookup, txUnixTime) ==
  IF lookup # "none" THEN [ err |-> lookup, data |-> stored ]
  ELSE IF stored.present THEN [ err |-> "none", data |-> stored ]
  ELSE [ err |-> "none",
         data |-> [ present |-> TRUE, galaVolumeTraded |-> 0, createdAt |-> txUnixTime,
                    lastUpdated |-> txUnixTime ] ]

\* writeTradeData: add the volume, stamp lastUpdated, put the record; the
\* result is the error and the record stored under the key afterwards
writeTradeData(stored, lookup, txUnixTime, galaVolumeTraded) ==
  LET fetched == fetchOrCreateLaunchpadTradeData(stored, lookup, txUnixTime)
      updated == [fetched.data EXCEPT !.galaVolumeTraded = @ + galaVolumeTraded,
                                      !.lastUpdated = txUnixTime]
  IN  IF fetched.err # "none" THEN [ err |-> fetched.err, data |-> stored ]
      ELSE IF ~ValidTradeData(updated) THEN [ err |-> "ValidationFailed", data |-> stored ]
      ELSE [ err |-> "none", data |-> updated ]

\* what a writeTradeData call did, and for each vault the volumes written so
\* far and the times of its first and latest write
TradeDataOutcome(op, vaultAddress, volume, err, pre, written, first, latest) ==
  [ op |-> op, err |-> err, vaultAddress |-> vaultAddress, galaVolumeTraded |-> volume,
    preTradeData |-> pre, written |-> written, first |-> first, latest |-> latest ]

InitTradeData ==
  /\ sale = NewLaunchpadSale(NoRbc, 0, 0)
  /\ bal = [ o \in Owners |-> [ t \in Tokens |-> 0 ] ]
  /\ feeConfig = NoConfig
  /\ feeAllocation = NoAllocation
  /\ feeReceipts = 0
  /\ decimals = FineDecimals
  /\ pool = FALSE
  /\ now = 0
  /\ txCount = 0
  /\ refused = Refusal(Outcome(NoRequest, StartTx, 0, 0, 0, 0, FALSE, 0))
  /\ NoSideState
  /\ last = TradeDataOutcome("none", VAULT, 0, "none", tradeData,
                             [ v \in TradeVaults |-> 0 ], [ v \in TradeVaults |-> NoBound ],
                             [ v \in TradeVaults |-> NoBound ])

WriteTradeData ==
  \E vaultAddress \in TradeVaults, galaVolumeTraded \in Volumes, lookup \in Lookups :
    LET res == writeTradeData(tradeData[vaultAddress], lookup, now, galaVolumeTraded)
        ok == res.err = "none"
    IN  /\ txCount < MaxTx
        /\ txCount' = txCount + 1
        /\ tradeData' = [tradeData EXCEPT ![vaultAddress] = res.data]
        /\ last' = TradeDataOutcome("writeTradeData", vaultAddress, galaVolumeTraded, res.err, tradeData,
                     IF ok THEN [last.written EXCEPT ![vaultAddress] = @ + galaVolumeTraded] ELSE last.written,
                     IF ok /\ last.first[vaultAddress] = NoBound
                       THEN [last.first EXCEPT ![vaultAddress] = now] ELSE last.first,
                     IF ok THEN [last.latest EXCEPT ![vaultAddress] = now] ELSE last.latest)
        /\ UNCHANGED << sale, bal, feeConfig, feeAllocation, feeReceipts, decimals, pool, now, refused, batchSubmitAuthorities >>

\* a later transaction carries a later txUnixTime
LaterTransaction ==
  /\ now < MaxTime
  /\ now' = now + 1
  /\ UNCHANGED << sale, bal, feeConfig, feeAllocation, feeReceipts, decimals, pool, txCount, last, refused, tradeData, batchSubmitAuthorities >>

NextTradeData ==
  \/ WriteTradeData
  \/ LaterTransaction

SpecTradeData == InitTradeData /\ [][NextTradeData]_vars

\* the record of every vault agrees with the writes made to it
TradeDataAgrees ==
  \A v \in TradeVaults :
    /\ tradeData[v].present <=> last.first[v] # NoBound
    /\ tradeData[v].galaVolumeTraded = last.written[v]
    /\ tradeData[v].present
         => /\ tradeData[v].createdAt = last.first[v]
            /\ tradeData[v].lastUpdated = last.latest[v]

\* a lookup error leaves every record as it was
LookupErrorPropagated ==
  (last.op = "writeTradeData" /\ last.err = "ChainError") => tradeData = last.preTradeData

\* createdAt of a stored record never changes
CreatedAtKept ==
  \A v \in TradeVaults : tradeData[v].present => tradeData'[v].createdAt = tradeData[v].createdAt

C34_TotalTokenSold ==
  /\ BuySucceeded => last.totalTokenSold = PreSold + last.tokens
  /\ SellSucceeded => last.totalTokenSold = PreSold - last.tokens

\* what the receipts do report: the running total for a buy that does not
\* finalize and for sellExactToken, maxSupply for a buy that finalizes, and
\* nothing for sellWithNative
C34_ReportedTotals ==
  /\ (BuySucceeded /\ ~last.isFinalized) => last.totalTokenSold = PreSold + last.tokens
  /\ (BuySucceeded /\ last.isFinalized) => last.totalTokenSold = last.preSale.maxSupply
  /\ (last.op = "sellExactToken" /\ Succeeded) => last.totalTokenSold = PreSold - last.tokens
  /\ (last.op = "sellWithNative" /\ Succeeded) => last.totalTokenSold = NoBound

\* a sellWithNative went through after a buy
C34_Witness ==
  /\ last.op = "sellWithNative"
  /\ Succeeded
  /\ last.tokens > 0
  /\ PreSold > last.tokens


\* the native tokens the trader paid to the fee address in the latest
\* transaction: at most the reverse bonding curve fee and the platform fee
FeesTransferred ==
  LET legs == NativeTransfers(TRADER, FEE_ADDRESS)
  IN  (IF Len(legs) >= 1 THEN legs[1] ELSE 0) + (IF Len(legs) >= 2 THEN legs[2] ELSE 0)

\* C35: the totalFees of the receipt of a successful trade is what the trade
\* charged: the platform fee of a buy, the platform fee plus the reverse
\* bonding curve fee that was transferred of a sell.
C35_TotalFees ==
  (last.op \in Trades /\ Succeeded) => last.totalFees = FeesTransferred

\* what the receipts do report: the fee charged for a buy, and for a sell the
\* platform fee plus the maximum acceptable reverse bonding curve fee of the
\* request, 0 when the request has none
C35_ReportedFees ==
  /\ BuySucceeded => last.totalFees = FeesTransferred /\ last.totalFees = last.fees
  /\ SellSucceeded => last.totalFees = last.fees + OrZero(last.maxFee)
  /\ (SellSucceeded /\ last.preSale.reverseBondingCurveConfiguration # NoRbc /\ feeConfig.present)
       => /\ FeesTransferred = last.fees + last.rbcFee
          /\ last.maxFee # NoBound => last.rbcFee <= last.maxFee

\* a sell was charged a reverse bonding curve fee below the maximum its
\* request accepts
C35_Witness ==
  /\ SellSucceeded
  /\ last.rbcFee > 0
  /\ FeesTransferred = last.fees + last.rbcFee
  /\ last.maxFee > last.rbcFee


\* the quantities of the latest transaction's transfers of a token from one
\* owner to another, in order
Legs(from, to, token) ==
  LET legs == SelectSeq(last.log, LAMBDA e : /\ e.kind = "transfer" /\ e.token = token
                                             /\ e.from = from /\ e.to = to)
  IN  [ i \in 1..Len(legs) |-> legs[i].quantity ]

\* C37: a successful trade moves between trader and vault exactly the token
\* and native quantities of its receipt and applies the same quantities to the
\* sale record, so that while the sale is not Finished the vault's balances
\* have changed since the sale's creation by what the sale's quantities have.
C37_QuantitiesAgree ==
  /\ BuySucceeded
       => /\ Legs(TRADER, VAULT, NATIVE) = << last.native >>
          /\ Legs(VAULT, TRADER, MEME) = << last.tokens >>
          /\ ~last.isFinalized
               => /\ sale.sellingTokenQuantity = last.preSale.sellingTokenQuantity - last.tokens
                  /\ sale.nativeTokenQuantity = last.preSale.nativeTokenQuantity + last.native
  /\ SellSucceeded
       => /\ Legs(TRADER, VAULT, MEME) = << last.tokens >>
          /\ Legs(VAULT, TRADER, NATIVE) = << last.native >>
          /\ sale.sellingTokenQuantity = last.preSale.sellingTokenQuantity + last.tokens
          /\ sale.nativeTokenQuantity = last.preSale.nativeTokenQuantity - last.native
  /\ sale.saleStatus # "Finished"
       => /\ bal[VAULT][NATIVE] = sale.nativeTokenQuantity
          /\ bal[VAULT][MEME] - 2 * sale.maxSupply = sale.sellingTokenQuantity - sale.maxSupply

\* a sell went through after a buy and the sale is still open
C37_Witness ==
  /\ SellSucceeded
  /\ last.tokens > 0
  /\ last.native > 0
  /\ txCount >= 2
  /\ sale.saleStatus # "Finished"
  /\ sale.nativeTokenQuantity > 0


====
